---- MODULE Spec2Model ----
(***************************************************************************)
(* EA Predictor: the scoring and aggregation engine of js/calculations.js  *)
(* (calculatePoints, calculatePlayerStats, aggregatePredictionsByPlayer,   *)
(* getLatestPlayerName, sortPlayersByStats, normalizeGame), the player     *)
(* history modal of js/ui-helpers.js, the admin panel handlers             *)
(* (handleAdminGameAdd, handleUpdateResults) and the rate limiter of       *)
(* fetchFixtures.js.                                                       *)
(*                                                                         *)
(* JavaScript values are modelled as records [k, n, s]: k is the kind      *)
(* ("number", "string", "null", "undefined", "NaN"), n the numeric value   *)
(* of a number and s the text of a string.  A field that is missing from   *)
(* an object reads as Undefined, as in JavaScript.                         *)
(***************************************************************************)
EXTENDS Integers, Sequences, FiniteSets, TLC

VARIABLES
  game,         \* the game object handed to calculatePoints
  prediction,   \* the prediction object handed to calculatePoints
  points,       \* what the last calculatePoints call returned
  pointsCalls,  \* number of calculatePoints calls made
  games,        \* the games array handed to calculatePlayerStats
  predictions,  \* the predictions array handed to calculatePlayerStats
  playerStats,  \* the mapping the last calculatePlayerStats call returned
  statsCalls,   \* number of calculatePlayerStats calls made
  ranking,      \* the array the last sortPlayersByStats call returned
  sortCalls,    \* number of sortPlayersByStats calls made
  aggregated,   \* what the last aggregatePredictionsByPlayer call returned
  latestName,   \* what the last getLatestPlayerName call returned
  modalDisplay, \* style.display of #player-history-modal
  modalTitle,   \* the user #player-history-title names
  modalContent, \* what #player-history-content shows
  calls,        \* the openPlayerHistory calls made, each with its position
  form,         \* the values of the admin form's inputs
  store,        \* the documents of the games collection the admin panel uses
  addGameButtonDisabled,        \* addGameButton.disabled
  add,          \* handleAdminGameAdd: its position, the gameData it writes,
                \* whether this run dispatched 'adminGameAdded', and the
                \* text of gameMessageDiv
  updateResultsButtonDisabled,  \* updateResultsButton.disabled
  upd,          \* handleUpdateResults: its position, pendingGames, the API
                \* result in hand, whether it updated a game and dispatched
  now,          \* Date.now(), in units of half a RATE_LIMIT_MS
  lastRequestTime,  \* the module variable of fetchFixtures.js
  requests,     \* the start times of the HTTP requests issued, in order
  procs,        \* the running calls of searchTeam, searchFixture and
                \* lookupEventById: position, timer and requests to go
  fetchFn,      \* the function of fetchFixtures.js that is called
  fetchArgs,    \* its arguments
  responses,    \* what the API answers to its requests, in order
  calledAt,     \* the time of the call
  filteredAt,   \* the time the responses are in (new Date() of searchFixture)
  returned,     \* what the call returned
  httpRequests, \* number of fetch calls it made
  fetchCalls,   \* number of calls made
  teams,        \* the team documents checkTeamNames.js reads
  run,          \* which run of checkTeamNames.js this is
  args,         \* process.argv.slice(2) of the run
  progressFile, \* teams_progress.json
  check,        \* the run's position, remaining, i, attempt, results and
                \* checkedIds
  teamRequests, \* per run and team id, the requests sent to the API
  killedAt,     \* the team in hand and the progress file when the first
                \* run was interrupted
  report        \* the results the report prints

vars == <<game, prediction, points, pointsCalls, games, predictions,
          playerStats, statsCalls, ranking, sortCalls, aggregated, latestName,
          modalDisplay, modalTitle, modalContent, calls,
          form, store, addGameButtonDisabled, add, updateResultsButtonDisabled, upd,
          now, lastRequestTime, requests, procs,
          fetchFn, fetchArgs, responses, calledAt, filteredAt, returned,
          httpRequests, fetchCalls,
          teams, run, args, progressFile, check, teamRequests, killedAt, report>>

pointsVars == <<game, prediction, points, pointsCalls>>
statsVars == <<games, predictions, playerStats, statsCalls, ranking, sortCalls>>
engineVars == <<aggregated, latestName>>

\* The variables outside calculatePoints, calculatePlayerStats and
\* sortPlayersByStats.
modalVars == <<modalDisplay, modalTitle, modalContent, calls>>
adminVars == <<form, store, addGameButtonDisabled, add, updateResultsButtonDisabled, upd>>
fetchVars == <<fetchFn, fetchArgs, responses, calledAt, filteredAt, returned,
               httpRequests, fetchCalls>>
scriptVars == <<teams, run, args, progressFile, check, teamRequests, killedAt, report>>
apiVars == <<now, lastRequestTime, requests, procs, fetchVars, scriptVars>>
uiVars == <<modalVars, adminVars, apiVars>>
otherVars == <<engineVars, uiVars>>

----------------------------------------------------------------------------
(* Bounds *)

\* Largest goal count of a score or of a predicted score.
MaxScore == 2

\* Largest number of predictions in the predictions array.
MaxPreds == 2

\* Largest number of calculatePlayerStats calls on the same arrays.
MaxCalls == 2

----------------------------------------------------------------------------
(* JavaScript values and the operators the code applies to them *)

Num(x) == [k |-> "number", n |-> x, s |-> ""]
Str(x) == [k |-> "string", n |-> 0, s |-> x]
Null == [k |-> "null", n |-> 0, s |-> ""]
Undefined == [k |-> "undefined", n |-> 0, s |-> ""]
NaN == [k |-> "NaN", n |-> 0, s |-> ""]

IsNum(v) == v.k = "number"

\* ToBoolean(v) = false
Falsy(v) ==
  \/ v.k \in {"undefined", "null", "NaN"}
  \/ v.k = "number" /\ v.n = 0
  \/ v.k = "string" /\ v.s = ""

\* a || b
Or(a, b) == IF Falsy(a) THEN b ELSE a

\* a === b
StrictEq(a, b) == a.k # "NaN" /\ b.k # "NaN" /\ a = b

\* ToNumber(v), for the kinds a score field can hold
ToNumber(v) ==
  CASE v.k = "number" -> v
    [] v.k = "null" -> Num(0)
    [] OTHER -> NaN

\* a > b and a < b on score fields: false as soon as one side is NaN
GT(a, b) == IsNum(ToNumber(a)) /\ IsNum(ToNumber(b)) /\ ToNumber(a).n > ToNumber(b).n
LT(a, b) == IsNum(ToNumber(a)) /\ IsNum(ToNumber(b)) /\ ToNumber(a).n < ToNumber(b).n

\* a - b
Minus(a, b) ==
  IF IsNum(ToNumber(a)) /\ IsNum(ToNumber(b))
    THEN Num(ToNumber(a).n - ToNumber(b).n)
    ELSE NaN

\* Math.abs(v)
MathAbs(v) ==
  LET x == ToNumber(v)
  IN IF IsNum(x) THEN Num(IF x.n < 0 THEN 0 - x.n ELSE x.n) ELSE NaN

\* String.prototype.toLowerCase on the status texts that occur
toLowerCase(v) ==
  CASE v.s \in {"finished", "Finished", "FINISHED"} -> Str("finished")
    [] v.s \in {"upcoming", "Upcoming", "UPCOMING"} -> Str("upcoming")
    [] v.s \in {"live", "Live", "LIVE"} -> Str("live")
    [] OTHER -> v

----------------------------------------------------------------------------
(* calculatePoints *)

Outcome_ge(home, away) ==
  IF GT(home, away) \/ StrictEq(home, away) THEN "HW"
  ELSE IF LT(home, away) THEN "AW" ELSE "D"

\* home > away ? 'HW' : (home < away ? 'AW' : 'D')
Outcome(home, away) ==
  IF GT(home, away) THEN "HW" ELSE IF LT(home, away) THEN "AW" ELSE "D"

\* The four scoring rules, summed.
ScoreRules(predictedHome, predictedAway, actualHome, actualAway) ==
  LET predictedOutcome == Outcome(predictedHome, predictedAway)
      actualOutcome == Outcome(actualHome, actualAway)
      predictedGoalDifference == Minus(predictedHome, predictedAway)
      actualGoalDifference == Minus(actualHome, actualAway)
  IN (IF predictedOutcome = actualOutcome THEN 5 ELSE 0)
     + (IF StrictEq(predictedHome, actualHome) THEN 2 ELSE 0)
     + (IF StrictEq(predictedAway, actualAway) THEN 2 ELSE 0)
     + (IF StrictEq(MathAbs(predictedGoalDifference), MathAbs(actualGoalDifference))
          THEN 1 ELSE 0)

calculatePoints_awayTypo(pred, g) ==
  LET gameStatus == toLowerCase(Or(Or(g.status, g.Status), Str("")))
      homeScore == IF g.homeScore # Undefined THEN g.homeScore ELSE g.HomeScore
      awayScore == IF g.awayScore # Undefined THEN g.awayScore ELSE g.AwayScore
      predictedHome == pred.predictedHomeScore
      predictedAway == pred.predictedAwayScore
  IN IF gameStatus # Str("finished") \/ homeScore = Null \/ awayScore = Null
       THEN Null
     ELSE IF predictedHome = Null \/ predictedAway = Null
       THEN Num(0)
     ELSE Num(ScoreRules(predictedHome, predictedAway, homeScore, homeScore))

\* calculatePoints(prediction, game): Null is the JavaScript null it returns
\* for a game it cannot score yet.
calculatePoints(pred, g) ==
  LET gameStatus == toLowerCase(Or(Or(g.status, g.Status), Str("")))
      homeScore == IF g.homeScore # Undefined THEN g.homeScore ELSE g.HomeScore
      awayScore == IF g.awayScore # Undefined THEN g.awayScore ELSE g.AwayScore
      predictedHome == pred.predictedHomeScore
      predictedAway == pred.predictedAwayScore
  IN IF gameStatus # Str("finished") \/ homeScore = Null \/ awayScore = Null
       THEN Null
     ELSE IF predictedHome = Null \/ predictedAway = Null
       THEN Num(0)
     ELSE Num(ScoreRules(predictedHome, predictedAway, homeScore, awayScore))

----------------------------------------------------------------------------
(* normalizeGame and the shapes in which a game reaches the engine *)

\* A Firestore game document: capitalised fields only.
GameDoc(id, Status, HomeScore, AwayScore, Fecha) ==
  [id |-> id,
   status |-> Undefined, homeScore |-> Undefined, awayScore |-> Undefined,
   fecha |-> Undefined,
   Status |-> Status, HomeScore |-> HomeScore, AwayScore |-> AwayScore,
   Fecha |-> Fecha]

\* normalizeGame(firestoreGame): lowercase fields added, originals kept.
normalizeGame(firestoreGame) ==
  [id |-> firestoreGame.id,
   homeScore |-> IF firestoreGame.HomeScore # Null THEN firestoreGame.HomeScore ELSE Null,
   awayScore |-> IF firestoreGame.AwayScore # Null THEN firestoreGame.AwayScore ELSE Null,
   status |-> IF firestoreGame.Status.k = "string"
                THEN Or(toLowerCase(firestoreGame.Status), Str("upcoming"))
                ELSE Str("upcoming"),
   fecha |-> firestoreGame.Fecha,
   HomeScore |-> firestoreGame.HomeScore,
   AwayScore |-> firestoreGame.AwayScore,
   Status |-> firestoreGame.Status,
   Fecha |-> firestoreGame.Fecha]

\* The object literal { status, homeScore, awayScore } built from a game:
\* lowercase fields only.
LowercaseGame(id, status, homeScore, awayScore, fecha) ==
  [id |-> id,
   status |-> status, homeScore |-> homeScore, awayScore |-> awayScore,
   fecha |-> fecha,
   Status |-> Undefined, HomeScore |-> Undefined, AwayScore |-> Undefined,
   Fecha |-> Undefined]

----------------------------------------------------------------------------
(* calculatePlayerStats *)

\* The mapping as first created (const playerStats = {}): keys in insertion
\* order, as Object.entries enumerates them, and the stats of each key.
EmptyStats == [keys |-> <<>>, stats |-> [u \in {} |-> 0]]

ZeroStats ==
  [totalPoints |-> 0, fechasWonCount |-> 0, perfectScoresCount |-> 0,
   gamesParticipated |-> 0]

UserKey_noDefault(pred) == pred.userId.s

\* pred.userId || 'unknown'
UserKey(pred) == Or(pred.userId, Str("unknown")).s

\* games.forEach(game => { gameMap[game.id] = game; }): a later game with
\* the same id replaces an earlier one.
GameMap(gs) ==
  [id \in {gs[i].id : i \in DOMAIN gs} |->
     gs[CHOOSE i \in DOMAIN gs :
          gs[i].id = id /\ \A j \in DOMAIN gs : gs[j].id = id => j <= i]]

\* First pass over the predictions: an all-zero entry for every user key.
RECURSIVE InitPlayerStats(_, _)
InitPlayerStats(acc, preds) ==
  IF preds = <<>> THEN acc
  ELSE LET userId == UserKey(Head(preds))
       IN InitPlayerStats(
            IF userId \in DOMAIN acc.stats
              THEN acc
              ELSE [keys |-> Append(acc.keys, userId),
                    stats |-> acc.stats @@ (userId :> ZeroStats)],
            Tail(preds))

NormalizedGame_capitalOnly(g) ==
  LowercaseGame("", toLowerCase(Or(g.Status, Str(""))), g.HomeScore, g.AwayScore, Undefined)

\* The normalizedGame literal built for calculatePoints.
NormalizedGame(g) ==
  LowercaseGame("",
    toLowerCase(Or(Or(g.Status, g.status), Str(""))),
    IF g.HomeScore # Undefined THEN g.HomeScore ELSE g.homeScore,
    IF g.AwayScore # Undefined THEN g.AwayScore ELSE g.awayScore,
    Undefined)

\* The points and the week total of one scored prediction added to the
\* accumulators [stats, fechaScores].
AddPoints(acc, userId, g, pts) ==
  LET fecha == Or(g.Fecha, g.fecha)
      stats1 ==
        [acc.stats EXCEPT ![userId] =
           [@ EXCEPT !.totalPoints = @ + pts,
                     !.gamesParticipated = @ + 1,
                     !.perfectScoresCount = IF pts = 10 THEN @ + 1 ELSE @]]
      old == IF fecha.s \in DOMAIN acc.fechaScores
               THEN acc.fechaScores[fecha.s]
               ELSE [u \in {} |-> 0]
      before == IF userId \in DOMAIN old THEN old[userId] ELSE 0
      new == [u \in DOMAIN old \cup {userId} |->
                IF u = userId THEN before + pts ELSE old[u]]
  IN [stats |-> stats1,
      fechaScores |->
        IF Falsy(fecha) THEN acc.fechaScores
        ELSE [f \in DOMAIN acc.fechaScores \cup {fecha.s} |->
                IF f = fecha.s THEN new ELSE acc.fechaScores[f]]]

ScorePrediction_truthyPoints(acc, pred, gameMap) ==
  IF pred.gameId \notin DOMAIN gameMap THEN acc
  ELSE LET pts == calculatePoints(pred, NormalizedGame(gameMap[pred.gameId]))
       IN IF Falsy(pts) THEN acc
          ELSE AddPoints(acc, UserKey(pred), gameMap[pred.gameId], pts.n)

ScorePrediction_noGameCheck(acc, pred, gameMap) ==
  IF pred.gameId \notin DOMAIN gameMap
    THEN [acc EXCEPT !.stats[UserKey(pred)].gamesParticipated = @ + 1]
  ELSE LET pts == calculatePoints(pred, NormalizedGame(gameMap[pred.gameId]))
       IN IF pts = Null THEN acc
          ELSE AddPoints(acc, UserKey(pred), gameMap[pred.gameId], pts.n)

\* Body of the second predictions.forEach: one prediction scored.
ScorePrediction(acc, pred, gameMap) ==
  IF pred.gameId \notin DOMAIN gameMap THEN acc
  ELSE LET pts == calculatePoints(pred, NormalizedGame(gameMap[pred.gameId]))
       IN IF pts = Null THEN acc
          ELSE AddPoints(acc, UserKey(pred), gameMap[pred.gameId], pts.n)

\* Variant that keeps only the last record of each (userId, gameId) pair.
RECURSIVE ScorePredictions_lastWins(_, _, _)
ScorePredictions_lastWins(acc, preds, gameMap) ==
  IF preds = <<>> THEN acc
  ELSE LET pred == Head(preds)
           resubmitted == \E k \in DOMAIN Tail(preds) :
                            /\ UserKey(Tail(preds)[k]) = UserKey(pred)
                            /\ Tail(preds)[k].gameId = pred.gameId
       IN ScorePredictions_lastWins(
            IF resubmitted THEN acc ELSE ScorePrediction(acc, pred, gameMap),
            Tail(preds), gameMap)

\* The second predictions.forEach.
RECURSIVE ScorePredictions(_, _, _)
ScorePredictions(acc, preds, gameMap) ==
  IF preds = <<>> THEN acc
  ELSE ScorePredictions(ScorePrediction(acc, Head(preds), gameMap), Tail(preds), gameMap)

\* Math.max(...scores)
MathMax(scores) == CHOOSE m \in scores : \A x \in scores : x <= m

CreditFecha_singleWinner(stats, playersInFecha) ==
  LET maxScore == MathMax({playersInFecha[u] : u \in DOMAIN playersInFecha})
      winner == CHOOSE u \in DOMAIN playersInFecha : playersInFecha[u] = maxScore
  IN [stats EXCEPT ![winner].fechasWonCount = @ + 1]

\* One fecha of the last loop: every player at the fecha's maximum is
\* credited with a win.
CreditFecha(stats, playersInFecha) ==
  LET maxScore == MathMax({playersInFecha[u] : u \in DOMAIN playersInFecha})
  IN [u \in DOMAIN stats |->
        IF u \in DOMAIN playersInFecha /\ playersInFecha[u] = maxScore
          THEN [stats[u] EXCEPT !.fechasWonCount = @ + 1]
          ELSE stats[u]]

RECURSIVE CreditFechas(_, _, _)
CreditFechas(stats, fechaScores, fechas) ==
  IF fechas = {} THEN stats
  ELSE LET fecha == CHOOSE f \in fechas : TRUE
       IN CreditFechas(CreditFecha(stats, fechaScores[fecha]), fechaScores,
                       fechas \ {fecha})

\* The body of calculatePlayerStats run on the mapping `initial`.
StatsPipeline(initial, gs, preds) ==
  LET gameMap == GameMap(gs)
      initialised == InitPlayerStats(initial, preds)
      scored == ScorePredictions(
                  [stats |-> initialised.stats, fechaScores |-> [f \in {} |-> 0]],
                  preds, gameMap)
  IN [keys |-> initialised.keys,
      stats |-> CreditFechas(scored.stats, scored.fechaScores,
                             DOMAIN scored.fechaScores)]

\* calculatePlayerStats(games, predictions)
calculatePlayerStats(gs, preds) == StatsPipeline(EmptyStats, gs, preds)

----------------------------------------------------------------------------
(* getLatestPlayerName and sortPlayersByStats *)

\* The display names and user ids that occur, in the order localeCompare
\* gives them.
Collation == <<"Ana", "Bob", "Cleo", "u1", "u2", "unknown">>

CollationRank(name) == CHOOSE i \in DOMAIN Collation : Collation[i] = name

\* nameA.localeCompare(nameB)
localeCompare(nameA, nameB) ==
  IF CollationRank(nameA) < CollationRank(nameB) THEN 0 - 1
  ELSE IF CollationRank(nameA) > CollationRank(nameB) THEN 1 ELSE 0

\* pred.timestamp ? new Date(pred.timestamp).getTime() : 0
TimeOf(pred) == IF Falsy(pred.timestamp) THEN 0 ELSE pred.timestamp.n

\* predictions.filter(p => p.userId === userId)
RECURSIVE FilterByUser(_, _)
FilterByUser(preds, userId) ==
  IF preds = <<>> THEN <<>>
  ELSE IF StrictEq(Head(preds).userId, Str(userId))
    THEN <<Head(preds)>> \o FilterByUser(Tail(preds), userId)
    ELSE FilterByUser(Tail(preds), userId)

\* The forEach that keeps the prediction with the greatest timestamp.
RECURSIVE LatestOf(_, _)
LatestOf(latest, preds) ==
  IF preds = <<>> THEN latest
  ELSE LatestOf(IF TimeOf(Head(preds)) > TimeOf(latest) THEN Head(preds) ELSE latest,
                Tail(preds))

\* getLatestPlayerName(predictions, userId)
getLatestPlayerName(preds, userId) ==
  LET userPredictions == FilterByUser(preds, userId)
  IN IF Len(userPredictions) > 0
       THEN Or(LatestOf(userPredictions[1], userPredictions).playerName, Str(userId)).s
       ELSE userId

ComparePlayers_fechasAscending(entryA, entryB, preds) ==
  LET idA == entryA[1]
      statsA == entryA[2]
      idB == entryB[1]
      statsB == entryB[2]
  IN IF statsB.totalPoints # statsA.totalPoints
       THEN statsB.totalPoints - statsA.totalPoints
     ELSE IF statsB.fechasWonCount # statsA.fechasWonCount
       THEN statsA.fechasWonCount - statsB.fechasWonCount
     ELSE IF statsB.perfectScoresCount # statsA.perfectScoresCount
       THEN statsB.perfectScoresCount - statsA.perfectScoresCount
     ELSE localeCompare(getLatestPlayerName(preds, idA), getLatestPlayerName(preds, idB))

\* The comparator of sortPlayersByStats on two [userId, stats] entries.
ComparePlayers(entryA, entryB, preds) ==
  LET idA == entryA[1]
      statsA == entryA[2]
      idB == entryB[1]
      statsB == entryB[2]
  IN IF statsB.totalPoints # statsA.totalPoints
       THEN statsB.totalPoints - statsA.totalPoints
     ELSE IF statsB.fechasWonCount # statsA.fechasWonCount
       THEN statsB.fechasWonCount - statsA.fechasWonCount
     ELSE IF statsB.perfectScoresCount # statsA.perfectScoresCount
       THEN statsB.perfectScoresCount - statsA.perfectScoresCount
     ELSE localeCompare(getLatestPlayerName(preds, idA), getLatestPlayerName(preds, idB))

\* Object.entries(playerStats): the entries in insertion order of the keys.
ObjectEntries(ps) == [i \in 1..Len(ps.keys) |-> <<ps.keys[i], ps.stats[ps.keys[i]]>>]

RECURSIVE InsertEntry_unstable(_, _, _)
InsertEntry_unstable(sorted, entry, preds) ==
  IF sorted = <<>> THEN <<entry>>
  ELSE IF ComparePlayers(entry, Head(sorted), preds) <= 0
    THEN <<entry>> \o sorted
    ELSE <<Head(sorted)>> \o InsertEntry_unstable(Tail(sorted), entry, preds)

\* Array.prototype.sort is stable: an entry goes before the first sorted
\* entry it compares strictly less than.
RECURSIVE InsertEntry(_, _, _)
InsertEntry(sorted, entry, preds) ==
  IF sorted = <<>> THEN <<entry>>
  ELSE IF ComparePlayers(entry, Head(sorted), preds) < 0
    THEN <<entry>> \o sorted
    ELSE <<Head(sorted)>> \o InsertEntry(Tail(sorted), entry, preds)

RECURSIVE ArraySort(_, _, _)
ArraySort(sorted, entries, preds) ==
  IF entries = <<>> THEN sorted
  ELSE ArraySort(InsertEntry(sorted, Head(entries), preds), Tail(entries), preds)

\* sortPlayersByStats(playerStats, predictions)
sortPlayersByStats(ps, preds) == ArraySort(<<>>, ObjectEntries(ps), preds)

----------------------------------------------------------------------------
(* aggregatePredictionsByPlayer(games, predictions) *)

\* The result is modelled as [players, gameIds, matrix]; matrix maps a
\* player id to a map from game id to [points, prediction].
NoAggregate == [players |-> <<>>, gameIds |-> <<>>, matrix |-> [u \in {} |-> 0]]

\* Order of Array.prototype.sort() without comparator (UTF-16 code units)
\* on the player ids of the model.
CodeUnitOrder == <<"u1", "u2", "unknown">>

\* Array.from(set).sort()
SortedArray(set) ==
  SelectSeq(CodeUnitOrder, LAMBDA x : x \in set)

\* Array.from(gameIds): the ids in the order they were first added.
RECURSIVE InsertionOrder(_, _)
InsertionOrder(seen, gs) ==
  IF gs = <<>> THEN seen
  ELSE InsertionOrder(IF \E k \in DOMAIN seen : seen[k] = Head(gs).id
                        THEN seen ELSE Append(seen, Head(gs).id),
                      Tail(gs))

\* Body of predictions.forEach: the cell of one prediction.
AddCell(matrix, pred, gameMap) ==
  IF pred.gameId \notin DOMAIN gameMap THEN matrix
  ELSE LET playerId == UserKey(pred)
           g == gameMap[pred.gameId]
           row == IF playerId \in DOMAIN matrix THEN matrix[playerId]
                  ELSE [x \in {} |-> 0]
           cell == [points |-> calculatePoints(pred,
                                 LowercaseGame("", g.status, g.homeScore, g.awayScore,
                                               Undefined)),
                    prediction |-> pred]
           newRow == [x \in DOMAIN row \cup {pred.gameId} |->
                        IF x = pred.gameId THEN cell ELSE row[x]]
       IN [u \in DOMAIN matrix \cup {playerId} |->
             IF u = playerId THEN newRow ELSE matrix[u]]

RECURSIVE AddCells(_, _, _)
AddCells(matrix, preds, gameMap) ==
  IF preds = <<>> THEN matrix
  ELSE AddCells(AddCell(matrix, Head(preds), gameMap), Tail(preds), gameMap)

aggregatePredictionsByPlayer(gs, preds) ==
  LET matrix == AddCells(NoAggregate.matrix, preds, GameMap(gs))
  IN [players |-> SortedArray(DOMAIN matrix),
      gameIds |-> InsertionOrder(<<>>, gs),
      matrix |-> matrix]

----------------------------------------------------------------------------
(* Inputs of calculatePoints *)

ScoreVals == {Undefined, Null} \cup {Num(x) : x \in 0..MaxScore}
StatusVals == {Undefined, Str(""), Str("finished"), Str("Finished"), Str("FINISHED"),
               Str("upcoming"), Str("live")}

PointsGameDocs ==
  {GameDoc("g1", st, h, a, Str("W1")) : st \in StatusVals, h \in ScoreVals, a \in ScoreVals}

PointsGames ==
  PointsGameDocs
  \cup {normalizeGame(d) : d \in PointsGameDocs}
  \cup {LowercaseGame(d.id, d.Status, d.HomeScore, d.AwayScore, d.Fecha) : d \in PointsGameDocs}

Prediction(userId, gameId, predictedHomeScore, predictedAwayScore, playerName, timestamp) ==
  [userId |-> userId, gameId |-> gameId,
   predictedHomeScore |-> predictedHomeScore,
   predictedAwayScore |-> predictedAwayScore,
   playerName |-> playerName, timestamp |-> timestamp]

PointsPredictions ==
  {Prediction(Str("u1"), "g1", h, a, Str("Ana"), Num(1)) : h \in ScoreVals, a \in ScoreVals}

NoPrediction == Prediction(Undefined, "", Undefined, Undefined, Undefined, Undefined)
NoGame == GameDoc("", Undefined, Undefined, Undefined, Undefined)

----------------------------------------------------------------------------
(* Specification of calculatePoints: a game is given, then one prediction  *)
(* is scored against it.                                                   *)

\* Nothing aggregated, no name looked up.
EngineIdle ==
  /\ aggregated = NoAggregate
  /\ latestName = ""

\* What the modal shows: the kind of content, the user it was made for
\* and the three figures of the stats header.
Content(kind, user, stats) ==
  [kind |-> kind, user |-> user,
   totalPoints |-> stats.totalPoints,
   perfectScoresCount |-> stats.perfectScoresCount,
   fechasWonCount |-> stats.fechasWonCount]

\* The modal as createPlayerHistoryModal builds it.
ModalIdle ==
  /\ modalDisplay = "none"
  /\ modalTitle = ""
  /\ modalContent = Content("empty", "", ZeroStats)
  /\ calls = <<>>

\* A document of the games collection as the admin panel reads and writes
\* it; KickOffTime is kept as "past", "future" or "" (none).
AdminDoc(id, Status, HomeScore, AwayScore, Fecha, thesportsdbEventId, KickOffTime) ==
  [id |-> id, Status |-> Status, HomeScore |-> HomeScore, AwayScore |-> AwayScore,
   Fecha |-> Fecha, thesportsdbEventId |-> thesportsdbEventId,
   KickOffTime |-> KickOffTime]

NoDoc == AdminDoc("", "", Null, Null, "", "", "")

\* The form with every input empty, Status at 'upcoming'.
ClearedForm ==
  [homeTeam |-> "", awayTeam |-> "", league |-> "", kickOffTime |-> "",
   status |-> "upcoming", fecha |-> "", homeScore |-> "", awayScore |-> "",
   thesportsdbEventId |-> ""]

\* clearAdminForm: every input of the form but the kick-off time is reset.
clearAdminForm(f) == [ClearedForm EXCEPT !.kickOffTime = f.kickOffTime]

\* An API result as lookupEventById returns it; found = FALSE stands for null.
ApiResult(found, isFinished, homeScore, awayScore) ==
  [found |-> found, isFinished |-> isFinished,
   homeScore |-> homeScore, awayScore |-> awayScore]

NoResult == ApiResult(FALSE, FALSE, Null, Null)

AddIdle == [pc |-> "idle", gameData |-> NoDoc, dispatched |-> FALSE, message |-> ""]
UpdIdle == [pc |-> "idle", pendingGames |-> <<>>, result |-> NoResult,
            updated |-> FALSE, dispatched |-> FALSE]

\* Empty form and store, no handler running.
AdminIdle ==
  /\ form = ClearedForm
  /\ store = <<>>
  /\ addGameButtonDisabled = FALSE
  /\ add = AddIdle
  /\ updateResultsButtonDisabled = FALSE
  /\ upd = UpdIdle

\* const RATE_LIMIT_MS = 2100, in the time unit of the model (1050 ms).
RATE_LIMIT_MS == 2

\* The exported functions that call the API.
ApiFunctions == {"searchTeam", "searchFixture", "lookupEventById"}

Proc(pc, wakeAt, left) == [pc |-> pc, wakeAt |-> wakeAt, left |-> left]

\* What a function of fetchFixtures.js returns: null, the team of
\* searchTeam, the array of searchFixture or the object of lookupEventById;
\* "thrown" stands for a rejected promise.
Returned(kind, team, fixtures, event) ==
  [kind |-> kind, team |-> team, fixtures |-> fixtures, event |-> event]

ReturnNull == Returned("null", "", <<>>, NoResult)
ReturnArray(fixtures) == Returned("array", "", fixtures, NoResult)
Thrown == Returned("thrown", "", <<>>, NoResult)
NotReturned == Returned("none", "", <<>>, NoResult)

\* No function of fetchFixtures.js called.
FetchIdle ==
  /\ fetchFn = ""
  /\ fetchArgs = <<"", "">>
  /\ responses = <<>>
  /\ calledAt = 0
  /\ filteredAt = 0
  /\ returned = NotReturned
  /\ httpRequests = 0
  /\ fetchCalls = 0

\* The results and the progress of checkTeamNames.js.
EmptyResults == [matches |-> <<>>, mismatches |-> <<>>, notFound |-> <<>>]
EmptyProgress == [checkedIds |-> <<>>, results |-> EmptyResults]
NoProgressFile == [exists |-> FALSE, checkedIds |-> <<>>, results |-> EmptyResults]
NotStarted ==
  [pc |-> "start", remaining |-> <<>>, i |-> 0, attempt |-> 0,
   results |-> EmptyResults, checkedIds |-> <<>>]
TeamIds == {"t1", "t2", "t3", "t4", "t5"}
NotKilled == [team |-> "", progress |-> NoProgressFile]

\* checkTeamNames.js not run.
ScriptIdle ==
  /\ teams = <<>>
  /\ run = 0
  /\ args = {}
  /\ progressFile = NoProgressFile
  /\ check = NotStarted
  /\ teamRequests = [r \in {1, 2} |-> [t \in TeamIds |-> 0]]
  /\ killedAt = NotKilled
  /\ report = EmptyResults

\* The module fetchFixtures.js after loading: lastRequestTime = 0, no call
\* running; the clock is far from 0.
ApiIdle ==
  /\ FetchIdle
  /\ ScriptIdle
  /\ now = RATE_LIMIT_MS
  /\ lastRequestTime = 0
  /\ requests = <<>>
  /\ procs = [f \in ApiFunctions |-> Proc("idle", 0, 0)]

UiIdle == ModalIdle /\ AdminIdle /\ ApiIdle

OthersIdle == EngineIdle /\ UiIdle

StatsIdle ==
  /\ games = <<>>
  /\ predictions = <<>>
  /\ playerStats = EmptyStats
  /\ statsCalls = 0
  /\ ranking = <<>>
  /\ sortCalls = 0

InitPoints ==
  /\ game \in PointsGames
  /\ prediction = NoPrediction
  /\ points = Null
  /\ pointsCalls = 0
  /\ StatsIdle
  /\ OthersIdle

CalculatePointsCall ==
  /\ pointsCalls = 0
  /\ \E p \in PointsPredictions :
       /\ prediction' = p
       /\ points' = calculatePoints(p, game)
  /\ pointsCalls' = 1
  /\ UNCHANGED <<game, statsVars, otherVars>>

NextPoints == CalculatePointsCall

SpecPoints == InitPoints /\ [][NextPoints]_vars

----------------------------------------------------------------------------
(* Inputs of calculatePlayerStats                                          *)

Arrays(S, maxLen) == UNION {[1..n -> S] : n \in 0..maxLen}

UserIds == {Str("u1"), Str("u2"), Undefined}

\* Two games as the store holds them: g1 finished 2-1 or still upcoming,
\* g2 finished 1-1 in the same week, in another week or without a week.
StatsGameLists ==
  {<<g1, g2>> :
     g1 \in {GameDoc("g1", Str("Finished"), Num(2), Num(1), Str("W1")),
             GameDoc("g1", Str("upcoming"), Null, Null, Str("W1"))},
     g2 \in {GameDoc("g2", Str("finished"), Num(1), Num(1), f) :
               f \in {Str("W1"), Str("W2"), Undefined}}}

\* Predictions on g1, on g2 or on a game that is not in the array (gX).
StatsPredictions ==
  {Prediction(u, g, sc[1], sc[2], Str("Ana"), Num(1)) :
     u \in UserIds, g \in {"g1", "g2", "gX"},
     sc \in {<<Num(2), Num(1)>>, <<Num(0), Num(0)>>}}

PointsIdle ==
  /\ game = NoGame
  /\ prediction = NoPrediction
  /\ points = Null
  /\ pointsCalls = 0

InitStats ==
  /\ PointsIdle
  /\ OthersIdle
  /\ games \in StatsGameLists
  /\ predictions \in Arrays(StatsPredictions, MaxPreds)
  /\ playerStats = EmptyStats
  /\ statsCalls = 0
  /\ ranking = <<>>
  /\ sortCalls = 0

CalculatePlayerStatsCall_sharedAccumulator ==
  /\ statsCalls < MaxCalls
  /\ playerStats' = StatsPipeline(playerStats, games, predictions)
  /\ statsCalls' = statsCalls + 1
  /\ UNCHANGED <<pointsVars, games, predictions, ranking, sortCalls, otherVars>>

\* One call of calculatePlayerStats on the arrays.
CalculatePlayerStatsCall ==
  /\ statsCalls < MaxCalls
  /\ playerStats' = calculatePlayerStats(games, predictions)
  /\ statsCalls' = statsCalls + 1
  /\ UNCHANGED <<pointsVars, games, predictions, ranking, sortCalls, otherVars>>

NextStats == CalculatePlayerStatsCall

SpecStats == InitStats /\ [][NextStats]_vars

----------------------------------------------------------------------------
(* Inputs of sortPlayersByStats: predictions with display names and        *)
(* timestamps, on two finished games, one of them without a week.          *)

RankGameLists ==
  {<<GameDoc("g1", Str("Finished"), Num(2), Num(1), Str("W1")),
     GameDoc("g2", Str("finished"), Num(2), Num(1), Undefined)>>}

\* The display name and timestamp a prediction carries.
NameStamps == {<<Str("Ana"), Num(1)>>, <<Str("Bob"), Num(1)>>, <<Str("Bob"), Num(2)>>}

RankPredictions ==
  {Prediction(u, g, sc[1], sc[2], nt[1], nt[2]) :
     u \in UserIds,
     g \in {"g1", "g2"},
     sc \in {<<Num(2), Num(1)>>, <<Num(0), Num(0)>>},
     nt \in NameStamps}

InitRank ==
  /\ PointsIdle
  /\ OthersIdle
  /\ games \in RankGameLists
  /\ predictions \in Arrays(RankPredictions, MaxPreds)
  /\ playerStats = EmptyStats
  /\ statsCalls = 0
  /\ ranking = <<>>
  /\ sortCalls = 0

\* Variant in which the sort reorders the mapping it was given.
SortPlayersByStatsCall_inPlace ==
  /\ statsCalls >= 1
  /\ sortCalls < MaxCalls
  /\ ranking' = sortPlayersByStats(playerStats, predictions)
  /\ playerStats' = [playerStats EXCEPT
                       !.keys = [k \in DOMAIN ranking' |-> ranking'[k][1]]]
  /\ sortCalls' = sortCalls + 1
  /\ UNCHANGED <<pointsVars, games, predictions, statsCalls, otherVars>>

\* One call of sortPlayersByStats on the mapping calculatePlayerStats gave.
SortPlayersByStatsCall ==
  /\ statsCalls >= 1
  /\ sortCalls < MaxCalls
  /\ ranking' = sortPlayersByStats(playerStats, predictions)
  /\ sortCalls' = sortCalls + 1
  /\ UNCHANGED <<pointsVars, games, predictions, playerStats, statsCalls, otherVars>>

\* The leaderboard computes the statistics once and sorts them.
NextRank ==
  \/ statsCalls = 0 /\ CalculatePlayerStatsCall
  \/ SortPlayersByStatsCall

SpecRank == InitRank /\ [][NextRank]_vars

----------------------------------------------------------------------------
(* Specification of the engine as its callers use it: the five functions   *)
(* called, in any order, on one games array and one predictions array.     *)

EngineGameLists ==
  RankGameLists \cup {<<normalizeGame(gs[1]), normalizeGame(gs[2])>> : gs \in RankGameLists}

EnginePredictions ==
  {Prediction(u, "g1", sc[1], sc[2], nt[1], nt[2]) :
     u \in {Str("u1"), Str("u2")},
     sc \in {<<Num(2), Num(1)>>, <<Num(0), Num(0)>>},
     nt \in {<<Str("Ana"), Num(1)>>, <<Str("Bob"), Num(2)>>}}
  \cup {Prediction(Undefined, "g2", Num(2), Num(1), Str("Ana"), Num(1)),
        Prediction(Str("u1"), "gX", Num(2), Num(1), Str("Ana"), Num(1))}

InitEngine ==
  /\ PointsIdle
  /\ EngineIdle
  /\ UiIdle
  /\ games \in EngineGameLists
  /\ predictions \in Arrays(EnginePredictions, MaxPreds)
  /\ playerStats = EmptyStats
  /\ statsCalls = 0
  /\ ranking = <<>>
  /\ sortCalls = 0

\* calculatePoints called on a prediction and a game of the arrays.
ScoreOneCall ==
  /\ pointsCalls = 0
  /\ \E i \in DOMAIN games, j \in DOMAIN predictions :
       /\ game' = games[i]
       /\ prediction' = predictions[j]
       /\ points' = calculatePoints(predictions[j], games[i])
  /\ pointsCalls' = 1
  /\ UNCHANGED <<statsVars, otherVars>>

AggregatePredictionsByPlayerCall ==
  /\ aggregated' = aggregatePredictionsByPlayer(games, predictions)
  /\ UNCHANGED <<pointsVars, statsVars, latestName, uiVars>>

GetLatestPlayerNameCall ==
  /\ \E userId \in {"u1", "u2", "unknown"} :
       latestName' = getLatestPlayerName(predictions, userId)
  /\ UNCHANGED <<pointsVars, statsVars, aggregated, uiVars>>

NextEngine ==
  \/ ScoreOneCall
  \/ statsCalls = 0 /\ CalculatePlayerStatsCall
  \/ sortCalls = 0 /\ SortPlayersByStatsCall
  \/ AggregatePredictionsByPlayerCall
  \/ GetLatestPlayerNameCall

SpecEngine == InitEngine /\ [][NextEngine]_vars

----------------------------------------------------------------------------
(* The player history modal of js/ui-helpers.js.  The store (the games and *)
(* predictions collections) does not change while the modal is used, so a  *)
(* call keeps only its userId and the await it is suspended at.            *)

\* Largest number of openPlayerHistory calls.
MaxOpens == 2

\* getPlayerStats(playerStats, userId)
getPlayerStats(ps, userId) ==
  IF userId \notin DOMAIN ps.stats THEN ZeroStats ELSE ps.stats[userId]

\* where('userId', '==', userId) on the predictions collection
UserPredictions(preds, userId) == FilterByUser(preds, userId)

\* The gameData object built from a games document.
GameData(d) ==
  [d EXCEPT !.status = toLowerCase(Or(d.Status, Str(""))),
            !.homeScore = d.HomeScore,
            !.awayScore = d.AwayScore,
            !.fecha = d.Fecha]

\* gamesArray: the documents of the games the user predicted.
GamesArray(gs, userPredictions) ==
  LET gameIds == {userPredictions[k].gameId : k \in DOMAIN userPredictions}
      fetched == SelectSeq(gs, LAMBDA d : d.id \in gameIds)
  IN [k \in DOMAIN fetched |-> GameData(fetched[k])]

\* The stats header openPlayerHistory renders for userId.
HistoryContent(gs, preds, userId) ==
  LET gamesArray == GamesArray(gs, UserPredictions(preds, userId))
      allPlayerStats == calculatePlayerStats(gamesArray, preds)
  IN Content("history", userId, getPlayerStats(allPlayerStats, userId))

Call(userId, pc) == [userId |-> userId, pc |-> pc]
Awaits == {"userPredictions", "games", "allPredictions"}

\* openPlayerHistory up to its first await.
OpenPlayerHistory(userId) ==
  /\ Len(calls) < MaxOpens
  /\ modalTitle' = userId
  /\ modalContent' = Content("loading", userId, ZeroStats)
  /\ modalDisplay' = "block"
  /\ calls' = Append(calls, Call(userId, "userPredictions"))
  /\ UNCHANGED <<pointsVars, statsVars, engineVars, adminVars, apiVars>>

\* getDocs(predQuery) resolves.
UserPredictionsResolve(c) ==
  /\ calls[c].pc = "userPredictions"
  /\ IF Len(UserPredictions(predictions, calls[c].userId)) = 0
       THEN /\ modalContent' = Content("none", calls[c].userId, ZeroStats)
            /\ calls' = [calls EXCEPT ![c].pc = "done"]
       ELSE /\ calls' = [calls EXCEPT ![c].pc = "games"]
            /\ UNCHANGED modalContent
  /\ UNCHANGED <<pointsVars, statsVars, engineVars, adminVars, apiVars, modalDisplay, modalTitle>>

\* getDocs(gamesQuery) resolves.
GamesResolve(c) ==
  /\ calls[c].pc = "games"
  /\ calls' = [calls EXCEPT ![c].pc = "allPredictions"]
  /\ UNCHANGED <<pointsVars, statsVars, engineVars, adminVars, apiVars, modalDisplay, modalTitle, modalContent>>

\* getDocs(allPredictionsRef) resolves and the history is rendered.
AllPredictionsResolve(c) ==
  /\ calls[c].pc = "allPredictions"
  /\ modalContent' = HistoryContent(games, predictions, calls[c].userId)
  /\ calls' = [calls EXCEPT ![c].pc = "done"]
  /\ UNCHANGED <<pointsVars, statsVars, engineVars, adminVars, apiVars, modalDisplay, modalTitle>>

\* An awaited getDocs rejects: the catch block.
FetchReject(c) ==
  /\ calls[c].pc \in Awaits
  /\ modalContent' = Content("error", calls[c].userId, ZeroStats)
  /\ calls' = [calls EXCEPT ![c].pc = "done"]
  /\ UNCHANGED <<pointsVars, statsVars, engineVars, adminVars, apiVars, modalDisplay, modalTitle>>

closePlayerHistoryModal ==
  /\ modalDisplay = "block"
  /\ modalDisplay' = "none"
  /\ UNCHANGED <<pointsVars, statsVars, engineVars, adminVars, apiVars, modalTitle, modalContent, calls>>

\* The store of the modal: two finished games of week W1.
ModalGameLists ==
  {<<GameDoc("g1", Str("Finished"), Num(2), Num(1), Str("W1")),
     GameDoc("g2", Str("finished"), Num(1), Num(1), Str("W1"))>>}

ModalPredictions ==
  {Prediction(Str("u1"), "g1", Num(0), Num(0), Str("Ana"), Num(1)),
   Prediction(Str("u1"), "g1", Num(2), Num(1), Str("Ana"), Num(1)),
   Prediction(Str("u2"), "g2", Num(0), Num(0), Str("Bob"), Num(1)),
   Prediction(Str("u2"), "g1", Num(2), Num(1), Str("Bob"), Num(1))}

InitModal ==
  /\ PointsIdle
  /\ EngineIdle
  /\ ModalIdle
  /\ AdminIdle
  /\ ApiIdle
  /\ games \in ModalGameLists
  /\ predictions \in Arrays(ModalPredictions, MaxPreds)
  /\ playerStats = EmptyStats
  /\ statsCalls = 0
  /\ ranking = <<>>
  /\ sortCalls = 0

NextModal ==
  \/ \E userId \in {"u1", "u2"} : OpenPlayerHistory(userId)
  \/ \E c \in DOMAIN calls : UserPredictionsResolve(c)
  \/ \E c \in DOMAIN calls : GamesResolve(c)
  \/ \E c \in DOMAIN calls : AllPredictionsResolve(c)
  \/ \E c \in DOMAIN calls : FetchReject(c)
  \/ closePlayerHistoryModal

SpecModal == InitModal /\ [][NextModal]_vars

----------------------------------------------------------------------------
(* The admin panel of js/calculations.js: handleAdminGameAdd and           *)
(* handleUpdateResults, each split at its awaits.                          *)

\* parseInt(value, 10) on the score texts of the model.
ParseInt(value) ==
  CASE value = "0" -> Num(0)
    [] value = "1" -> Num(1)
    [] value = "2" -> Num(2)
    [] OTHER -> NaN

\* The ids Firestore gives to added documents.
DocIds == <<"d1", "d2", "d3", "d4">>

ValidationMessage_noTeamTest(f) ==
  IF \/ f.homeTeam = "" \/ f.awayTeam = "" \/ f.league = ""
     \/ f.kickOffTime = "" \/ f.status = ""
    THEN "Please fill in all required fields"
  ELSE IF f.fecha = "" THEN "Please enter the Fecha"
  ELSE IF f.kickOffTime = "bad" THEN "Invalid Kick-off Time."
  ELSE ""

\* The validation returns of handleAdminGameAdd: the message of the first
\* test that fails, "" when none does.
ValidationMessage(f) ==
  IF \/ f.homeTeam = "" \/ f.awayTeam = "" \/ f.league = ""
     \/ f.kickOffTime = "" \/ f.status = ""
    THEN "Please fill in all required fields"
  ELSE IF f.fecha = "" THEN "Please enter the Fecha"
  ELSE IF f.homeTeam = f.awayTeam THEN "Home Team and Away Team cannot be the same."
  ELSE IF f.kickOffTime = "bad" THEN "Invalid Kick-off Time."
  ELSE ""

FormRejected(f) == ValidationMessage(f) # ""

\* The gameData object built from the form.
GameDataOf(f) ==
  LET homeScore == IF f.homeScore # "" THEN ParseInt(f.homeScore) ELSE Null
      awayScore == IF f.awayScore # "" THEN ParseInt(f.awayScore) ELSE Null
      scored == f.status = "finished" \/ f.status = "live"
  IN AdminDoc("", f.status,
              IF scored THEN homeScore ELSE Null,
              IF scored THEN awayScore ELSE Null,
              f.fecha, f.thesportsdbEventId, f.kickOffTime)

\* handleAdminGameAdd from the click to its await (or to a validation return).
HandleAdminGameAdd ==
  /\ ~addGameButtonDisabled
  /\ add.pc = "idle"
  /\ IF FormRejected(form)
       THEN /\ add' = [AddIdle EXCEPT !.message = ValidationMessage(form)]
            /\ addGameButtonDisabled' = FALSE
       ELSE /\ add' = [pc |-> "addDoc", gameData |-> GameDataOf(form),
                       dispatched |-> FALSE, message |-> "Adding game..."]
            /\ addGameButtonDisabled' = TRUE
  /\ UNCHANGED <<pointsVars, statsVars, engineVars, modalVars, apiVars,
                 form, store, updateResultsButtonDisabled, upd>>

\* addDoc resolves: the document is in the store, the form is cleared, the
\* event dispatched, the button enabled again.
AddDocResolve ==
  /\ add.pc = "addDoc"
  /\ Len(store) < Len(DocIds)
  /\ store' = Append(store, [add.gameData EXCEPT !.id = DocIds[Len(store) + 1]])
  /\ form' = clearAdminForm(form)
  /\ add' = [pc |-> "idle", gameData |-> NoDoc, dispatched |-> TRUE,
             message |-> "Game added successfully!"]
  /\ addGameButtonDisabled' = FALSE
  /\ UNCHANGED <<pointsVars, statsVars, engineVars, modalVars, apiVars,
                 updateResultsButtonDisabled, upd>>

\* addDoc rejects: catch and finally.
AddDocReject ==
  /\ add.pc = "addDoc"
  /\ add' = [AddIdle EXCEPT !.message = "Error adding game"]
  /\ addGameButtonDisabled' = FALSE
  /\ UNCHANGED <<pointsVars, statsVars, engineVars, modalVars, apiVars,
                 form, store, updateResultsButtonDisabled, upd>>

\* What lookupEventById may return for an event.
ApiResults ==
  {NoResult}
  \cup {ApiResult(TRUE, f, h, a) :
          f \in BOOLEAN, h \in {Null, Num(2)}, a \in {Null, Num(1)}}

\* handleUpdateResults from the click to await getDocsFunction(q).
HandleUpdateResults ==
  /\ ~updateResultsButtonDisabled
  /\ upd.pc = "idle"
  /\ updateResultsButtonDisabled' = TRUE
  /\ upd' = [UpdIdle EXCEPT !.pc = "getDocs"]
  /\ UNCHANGED <<pointsVars, statsVars, engineVars, modalVars, apiVars,
                 form, store, addGameButtonDisabled, add>>

UpdFinished_noFinally(updated, dispatched) ==
  /\ upd' = [UpdIdle EXCEPT !.updated = updated, !.dispatched = dispatched]
  /\ UNCHANGED updateResultsButtonDisabled

\* The end of a handleUpdateResults run: summary, event, finally.
UpdFinished(updated, dispatched) ==
  /\ upd' = [UpdIdle EXCEPT !.updated = updated, !.dispatched = dispatched]
  /\ updateResultsButtonDisabled' = FALSE

\* After one game of the loop: the next lookup, or the summary.
UpdContinue(rest, updated) ==
  IF rest = <<>>
    THEN UpdFinished(updated, updated)
    ELSE /\ upd' = [upd EXCEPT !.pc = "lookup", !.pendingGames = rest,
                               !.result = NoResult, !.updated = updated]
         /\ UNCHANGED updateResultsButtonDisabled

\* The query resolves: the upcoming games with an event id whose kick-off
\* is not in the future are kept.
GetDocsResolve ==
  /\ upd.pc = "getDocs"
  /\ LET snapshot == SelectSeq(store, LAMBDA d : d.Status = "upcoming")
         pendingGames ==
           SelectSeq(snapshot,
                     LAMBDA d : d.thesportsdbEventId # "" /\ d.KickOffTime # "future")
     IN IF pendingGames = <<>>
          THEN UpdFinished(FALSE, FALSE)
          ELSE /\ upd' = [upd EXCEPT !.pc = "lookup", !.pendingGames = pendingGames]
               /\ UNCHANGED updateResultsButtonDisabled
  /\ UNCHANGED <<pointsVars, statsVars, engineVars, modalVars, apiVars,
                 form, store, addGameButtonDisabled, add>>

\* lookupEventById resolves for the first pending game.
LookupResolve ==
  /\ upd.pc = "lookup"
  /\ \E result \in ApiResults :
       IF ~result.found \/ ~result.isFinished
         THEN UpdContinue(Tail(upd.pendingGames), upd.updated)
         ELSE /\ upd' = [upd EXCEPT !.pc = "updateDoc", !.result = result]
              /\ UNCHANGED updateResultsButtonDisabled
  /\ UNCHANGED <<pointsVars, statsVars, engineVars, modalVars, apiVars,
                 form, store, addGameButtonDisabled, add>>

\* updateDoc resolves: the game has the API scores and Status 'finished'.
UpdateDocResolve ==
  /\ upd.pc = "updateDoc"
  /\ store' = [k \in DOMAIN store |->
                 IF store[k].id = Head(upd.pendingGames).id
                   THEN [store[k] EXCEPT !.HomeScore = upd.result.homeScore,
                                         !.AwayScore = upd.result.awayScore,
                                         !.Status = "finished"]
                   ELSE store[k]]
  /\ UpdContinue(Tail(upd.pendingGames), TRUE)
  /\ UNCHANGED <<pointsVars, statsVars, engineVars, modalVars, apiVars,
                 form, addGameButtonDisabled, add>>

\* An awaited call of handleUpdateResults rejects: catch and finally.
UpdateReject ==
  /\ upd.pc \in {"getDocs", "lookup", "updateDoc"}
  /\ UpdFinished(upd.updated, FALSE)
  /\ UNCHANGED <<pointsVars, statsVars, engineVars, modalVars, apiVars,
                 form, store, addGameButtonDisabled, add>>

\* Another writer of the games collection (a second admin session, or the
\* scheduled job that runs the same update) finishes the game this run has
\* queried and not yet written.
OtherUpdate ==
  /\ upd.pc \in {"lookup", "updateDoc"}
  /\ \E k \in DOMAIN store :
       /\ store[k].id = Head(upd.pendingGames).id
       /\ store[k].Status = "upcoming"
       /\ store' = [store EXCEPT ![k] = [@ EXCEPT !.HomeScore = Num(3),
                                                  !.AwayScore = Num(0),
                                                  !.Status = "finished"]]
  /\ UNCHANGED <<pointsVars, statsVars, engineVars, modalVars, apiVars,
                 form, addGameButtonDisabled, add, updateResultsButtonDisabled, upd>>

\* The values of the form's inputs in the model.
AllForms ==
  [homeTeam : {"", "A"}, awayTeam : {"", "A", "B"}, league : {"", "L"},
   kickOffTime : {"", "past", "bad"}, status : {"", "upcoming", "live", "finished"},
   fecha : {"", "W1"}, homeScore : {"", "2"}, awayScore : {"", "1"},
   thesportsdbEventId : {"", "e3"}]

RequiredFields == {"homeTeam", "awayTeam", "league", "kickOffTime", "status"}

\* What the admin may have typed into the form: at most one of the
\* required fields is left empty.
AdminForms ==
  {f \in AllForms : Cardinality({x \in RequiredFields : f[x] = ""}) <= 1}

\* The games collection before the handlers run.
AdminStores ==
  {<<AdminDoc("d1", "upcoming", Null, Null, "W1", "e1", "past"), d2>> :
     d2 \in {AdminDoc("d2", "upcoming", Null, Null, "W1", "", "past"),
             AdminDoc("d2", "upcoming", Null, Null, "W1", "e2", "future"),
             AdminDoc("d2", "upcoming", Null, Null, "W1", "e2", ""),
             AdminDoc("d2", "finished", Num(2), Num(1), "W1", "e2", "past")}}

InitAdmin ==
  /\ PointsIdle
  /\ StatsIdle
  /\ EngineIdle
  /\ ModalIdle
  /\ ApiIdle
  /\ form \in AdminForms
  /\ store \in AdminStores
  /\ addGameButtonDisabled = FALSE
  /\ add = AddIdle
  /\ updateResultsButtonDisabled = FALSE
  /\ upd = UpdIdle

NextAdmin ==
  \/ HandleAdminGameAdd
  \/ AddDocResolve
  \/ AddDocReject
  \/ HandleUpdateResults
  \/ GetDocsResolve
  \/ LookupResolve
  \/ UpdateDocResolve
  \/ UpdateReject
  \/ OtherUpdate

SpecAdmin == InitAdmin /\ [][NextAdmin]_vars

----------------------------------------------------------------------------
(* The rate limiter of fetchFixtures.js: enforceRateLimit and the three    *)
(* functions that await it before each fetch.                              *)

\* Latest clock value.
MaxTime == 5

\* Largest number of HTTP requests.
MaxRequests == 4

\* The number of requests a call makes: searchFixture tries both orders.
RequestsOf(f) == IF f = "searchFixture" THEN 2 ELSE 1

\* enforceRateLimit entered by f with `left` requests to go: it sleeps when
\* the last request is too recent, else it sets lastRequestTime and the
\* fetch starts.
EnforceRateLimit(f, left) ==
  LET timeSinceLastRequest == now - lastRequestTime
  IN IF timeSinceLastRequest < RATE_LIMIT_MS
       THEN /\ procs' = [procs EXCEPT
                           ![f] = Proc("sleeping", now + (RATE_LIMIT_MS - timeSinceLastRequest), left)]
            /\ UNCHANGED <<lastRequestTime, requests>>
       ELSE /\ lastRequestTime' = now
            /\ requests' = Append(requests, now)
            /\ procs' = [procs EXCEPT ![f] = Proc("fetching", 0, left)]

\* searchTeam, searchFixture or lookupEventById is called.
ApiCall(f) ==
  /\ procs[f].pc = "idle"
  /\ Len(requests) + RequestsOf(f) <= MaxRequests
  /\ EnforceRateLimit(f, RequestsOf(f))
  /\ UNCHANGED <<pointsVars, statsVars, engineVars, modalVars, adminVars, fetchVars, scriptVars, now>>

\* The setTimeout of enforceRateLimit fires: lastRequestTime is set and the
\* fetch starts.
TimerFires(f) ==
  /\ procs[f].pc = "sleeping"
  /\ now >= procs[f].wakeAt
  /\ lastRequestTime' = now
  /\ requests' = Append(requests, now)
  /\ procs' = [procs EXCEPT ![f] = Proc("fetching", 0, procs[f].left)]
  /\ UNCHANGED <<pointsVars, statsVars, engineVars, modalVars, adminVars, fetchVars, scriptVars, now>>

\* The fetch settles: searchFixture goes on to its second order, the other
\* functions return.
FetchSettles(f) ==
  /\ procs[f].pc = "fetching"
  /\ IF procs[f].left > 1
       THEN EnforceRateLimit(f, procs[f].left - 1)
       ELSE /\ procs' = [procs EXCEPT ![f] = Proc("idle", 0, 0)]
            /\ UNCHANGED <<lastRequestTime, requests>>
  /\ UNCHANGED <<pointsVars, statsVars, engineVars, modalVars, adminVars, fetchVars, scriptVars, now>>

\* Time passes; a timer that is due fires first.
Tick ==
  /\ now < MaxTime
  /\ \A f \in ApiFunctions : procs[f].pc = "sleeping" => now < procs[f].wakeAt
  /\ now' = now + 1
  /\ UNCHANGED <<pointsVars, statsVars, engineVars, modalVars, adminVars, fetchVars, scriptVars,
                 lastRequestTime, requests, procs>>

InitApi ==
  /\ PointsIdle
  /\ StatsIdle
  /\ EngineIdle
  /\ ModalIdle
  /\ AdminIdle
  /\ ApiIdle

NextApi ==
  \/ \E f \in ApiFunctions : ApiCall(f)
  \/ \E f \in ApiFunctions : TimerFires(f)
  \/ \E f \in ApiFunctions : FetchSettles(f)
  \/ Tick

SpecApi == InitApi /\ [][NextApi]_vars

----------------------------------------------------------------------------
(* searchTeam, searchFixture and lookupEventById of fetchFixtures.js as    *)
(* functions of their arguments and of what the API answers.               *)

\* An answer of the API: "ok" with the items of its JSON body (teams,
\* event or events; none when the field is missing or null), "notOk" for a
\* response whose ok is false, "throws" for a fetch or response.json() that
\* rejects.
Response(kind, items) == [kind |-> kind, items |-> items]

\* An item of a JSON body.  time is the instant strTimestamp || dateEvent
\* parses to, -1 when it parses to an Invalid Date.
Event(idEvent, time, strStatus, intHomeScore, intAwayScore) ==
  [idEvent |-> idEvent, time |-> time, strStatus |-> strStatus,
   intHomeScore |-> intHomeScore, intAwayScore |-> intAwayScore]

\* formatDateToISO: the ISO text of an instant, and new Date(text) back.
FormatDateToISO(time) == [iso |-> time]
DateOf(text) == text.iso

mapEventToFirestoreFormat(event) ==
  [thesportsdbEventId |-> event.idEvent,
   KickOffTime |-> FormatDateToISO(event.time),
   Status |-> "upcoming", HomeScore |-> Null, AwayScore |-> Null]

\* The for loop over searchOrders: the events of the ok answers, the
\* number of requests made, and whether a request threw.
RECURSIVE FetchOrders(_, _, _)
FetchOrders(allEvents, rs, n) ==
  IF rs = <<>> THEN [threw |-> FALSE, allEvents |-> allEvents, requests |-> n]
  ELSE IF Head(rs).kind = "throws"
    THEN [threw |-> TRUE, allEvents |-> allEvents, requests |-> n + 1]
  ELSE IF Head(rs).kind = "notOk" THEN FetchOrders(allEvents, Tail(rs), n + 1)
  ELSE FetchOrders(allEvents \o Head(rs).items, Tail(rs), n + 1)

\* The filter callback applied in order: an id seen before is dropped, the
\* id is recorded, and the event is kept when its date is after now.
RECURSIVE FilterEvents(_, _, _)
FilterEvents(events, eventIds, time) ==
  IF events = <<>> THEN <<>>
  ELSE LET event == Head(events)
       IN IF event.idEvent \in eventIds
            THEN FilterEvents(Tail(events), eventIds, time)
            ELSE (IF event.time # -1 /\ event.time > time THEN <<event>> ELSE <<>>)
                 \o FilterEvents(Tail(events), eventIds \cup {event.idEvent}, time)

MapEvents(events) == [k \in DOMAIN events |-> mapEventToFirestoreFormat(events[k])]

\* Variant that leaves a fixture where it was found.
InsertFixture_unsorted(sorted, fixture) == Append(sorted, fixture)

\* Array.prototype.sort with (a, b) => new Date(a.KickOffTime) -
\* new Date(b.KickOffTime): one fixture put behind those not later than it.
InsertFixture(sorted, fixture) ==
  LET before == {k \in DOMAIN sorted :
                   \A j \in 1..k :
                     DateOf(sorted[j].KickOffTime) <= DateOf(fixture.KickOffTime)}
      n == Cardinality(before)
  IN SubSeq(sorted, 1, n) \o <<fixture>> \o SubSeq(sorted, n + 1, Len(sorted))

RECURSIVE SortFixtures(_, _)
SortFixtures(sorted, fixtures) ==
  IF fixtures = <<>> THEN sorted
  ELSE SortFixtures(InsertFixture(sorted, Head(fixtures)), Tail(fixtures))

\* .slice(0, 5)
SliceFive(fixtures) == SubSeq(fixtures, 1, IF Len(fixtures) < 5 THEN Len(fixtures) ELSE 5)

\* searchFixture(homeTeamName, awayTeamName): what it returns and the
\* number of requests it makes, the answers being rs and the time after the
\* requests being `time`.
searchFixture(homeTeamName, awayTeamName, rs, time) ==
  IF homeTeamName = "" \/ awayTeamName = ""
    THEN [returned |-> ReturnArray(<<>>), requests |-> 0]
  ELSE LET fetched == FetchOrders(<<>>, rs, 0)
       IN [returned |->
             IF fetched.threw \/ fetched.allEvents = <<>> THEN ReturnArray(<<>>)
             ELSE ReturnArray(SliceFive(SortFixtures(<<>>,
                    MapEvents(FilterEvents(fetched.allEvents, {}, time))))),
           requests |-> fetched.requests]

\* String.prototype.trim on the team names of the model.
Trim(text) == IF text = " " THEN "" ELSE text

\* Variant without the try/catch: the exception reaches the caller.
searchTeam_noCatch(teamName, rs) ==
  IF teamName = "" \/ Len(Trim(teamName)) = 0
    THEN [returned |-> ReturnNull, requests |-> 0]
  ELSE [returned |->
          IF rs[1].kind = "throws" THEN Thrown
          ELSE IF rs[1].kind = "notOk" THEN ReturnNull
          ELSE IF Len(rs[1].items) = 0 THEN ReturnNull
          ELSE Returned("team", rs[1].items[1].idEvent, <<>>, NoResult),
        requests |-> 1]

\* searchTeam(teamName), the answer to its request being rs[1].
searchTeam(teamName, rs) ==
  IF teamName = "" \/ Len(Trim(teamName)) = 0
    THEN [returned |-> ReturnNull, requests |-> 0]
  ELSE [returned |->
          IF rs[1].kind = "throws" THEN ReturnNull
          ELSE IF rs[1].kind = "notOk" THEN ReturnNull
          ELSE IF Len(rs[1].items) = 0 THEN ReturnNull
          ELSE Returned("team", rs[1].items[1].idEvent, <<>>, NoResult),
        requests |-> 1]

\* (event.strStatus || '').toLowerCase() includes 'finished' or 'full
\* time', or is 'ft', on the status texts of the model.
IsFinishedStatus(strStatus) ==
  \/ strStatus \in {"Match Finished", "finished"}
  \/ strStatus \in {"Full Time"}
  \/ strStatus \in {"FT", "ft"}

\* intHomeScore !== null && intHomeScore !== '' ? parseInt(..., 10) : null
ScoreOf(intScore) ==
  IF intScore # Null /\ intScore # Str("") THEN ParseInt(intScore.s) ELSE Null

\* lookupEventById(eventId), the answer to its request being rs[1].
lookupEventById(eventId, rs) ==
  IF eventId = "" THEN [returned |-> ReturnNull, requests |-> 0]
  ELSE [returned |->
          IF rs[1].kind = "throws" THEN ReturnNull
          ELSE IF rs[1].kind = "notOk" THEN ReturnNull
          ELSE IF Len(rs[1].items) = 0 THEN ReturnNull
          ELSE LET event == rs[1].items[1]
               IN Returned("event", "", <<>>,
                           ApiResult(TRUE, IsFinishedStatus(event.strStatus),
                                     ScoreOf(event.intHomeScore),
                                     ScoreOf(event.intAwayScore))),
        requests |-> 1]

\* The events the API knows: kick-off at the time of the call (1), while
\* the requests are under way (2), later, and one with an unreadable date.
KnownEvents ==
  <<Event("e0", 1, "", Null, Null), Event("e1", 2, "", Null, Null),
    Event("e2", 3, "", Null, Null), Event("e3", 3, "", Null, Null),
    Event("e4", 4, "", Null, Null), Event("e5", 5, "", Null, Null),
    Event("e6", 6, "", Null, Null), Event("e7", 7, "", Null, Null),
    Event("e8", -1, "", Null, Null)>>

Reverse(seq) == [k \in DOMAIN seq |-> seq[Len(seq) + 1 - k]]

\* The answers to the first order: any of the known events, earliest first
\* or latest first.
FirstOrderResponses ==
  UNION {{Response("ok", SelectSeq(KnownEvents, LAMBDA e : e.idEvent \in ids)),
          Response("ok", Reverse(SelectSeq(KnownEvents, LAMBDA e : e.idEvent \in ids)))} :
           ids \in SUBSET {KnownEvents[k].idEvent : k \in DOMAIN KnownEvents}}

\* The answers to the second order.
SecondOrderResponses ==
  {Response("throws", <<>>), Response("notOk", <<>>), Response("ok", <<>>),
   Response("ok", <<KnownEvents[4], KnownEvents[3]>>),
   Response("ok", <<KnownEvents[8], KnownEvents[9], KnownEvents[5]>>),
   Response("ok", <<Event("e5", 0, "", Null, Null), KnownEvents[2]>>)}

SingleResponses(items) ==
  {<<Response("throws", <<>>)>>, <<Response("notOk", <<>>)>>, <<Response("ok", <<>>)>>}
  \cup {<<Response("ok", i)>> : i \in items}

InitFetch ==
  /\ PointsIdle
  /\ StatsIdle
  /\ EngineIdle
  /\ ModalIdle
  /\ AdminIdle
  /\ ScriptIdle
  /\ now = RATE_LIMIT_MS
  /\ lastRequestTime = 0
  /\ requests = <<>>
  /\ procs = [f \in ApiFunctions |-> Proc("idle", 0, 0)]
  /\ returned = NotReturned
  /\ httpRequests = 0
  /\ fetchCalls = 0
  /\ calledAt = 1
  /\ \/ /\ fetchFn = "searchFixture"
        /\ fetchArgs \in {<<"A", "B">>, <<"", "B">>, <<"A", "">>}
        /\ responses \in {<<r1, r2>> : r1 \in FirstOrderResponses, r2 \in SecondOrderResponses}
        /\ filteredAt \in {1, 2}
     \/ /\ fetchFn = "searchTeam"
        /\ fetchArgs \in {<<"", "">>, <<" ", "">>, <<"A", "">>}
        /\ responses \in SingleResponses({<<Event("t1", 0, "", Null, Null),
                                             Event("t2", 0, "", Null, Null)>>})
        /\ filteredAt = 1
     \/ /\ fetchFn = "lookupEventById"
        /\ fetchArgs \in {<<"", "">>, <<"e1", "">>}
        /\ responses \in SingleResponses({<<Event("e1", 1, st, h, a)>> :
                            st \in {"", "Not Started", "Match Finished", "FT"},
                            h \in {Null, Str(""), Str("2")},
                            a \in {Null, Str(""), Str("1")}})
        /\ filteredAt = 1

\* The frame of a call of fetchFixtures.js seen without its rate limiter.
FetchFrame ==
  UNCHANGED <<pointsVars, statsVars, engineVars, modalVars, adminVars,
              now, lastRequestTime, requests, procs,
              fetchFn, fetchArgs, responses, calledAt, filteredAt, scriptVars>>

SearchFixtureCall ==
  /\ fetchFn = "searchFixture" /\ fetchCalls = 0
  /\ LET call == searchFixture(fetchArgs[1], fetchArgs[2], responses, filteredAt)
     IN returned' = call.returned /\ httpRequests' = call.requests
  /\ fetchCalls' = 1
  /\ FetchFrame

SearchTeamCall ==
  /\ fetchFn = "searchTeam" /\ fetchCalls = 0
  /\ LET call == searchTeam(fetchArgs[1], responses)
     IN returned' = call.returned /\ httpRequests' = call.requests
  /\ fetchCalls' = 1
  /\ FetchFrame

LookupEventByIdCall ==
  /\ fetchFn = "lookupEventById" /\ fetchCalls = 0
  /\ LET call == lookupEventById(fetchArgs[1], responses)
     IN returned' = call.returned /\ httpRequests' = call.requests
  /\ fetchCalls' = 1
  /\ FetchFrame

NextFetch ==
  \/ SearchFixtureCall
  \/ SearchTeamCall
  \/ LookupEventByIdCall

SpecFetch == InitFetch /\ [][NextFetch]_vars

----------------------------------------------------------------------------
(* checkTeamNames.js: the script reads the team documents, drops the teams *)
(* whose name an earlier team has, and checks the remaining ones against   *)
(* the API one after the other, saving its progress after each team. The   *)
(* process can be killed at any point; a second run starts from the files  *)
(* the first one left.                                                     *)

MAX_RETRIES == 3

Team(id, name) == [id |-> id, name |-> name]
Entry(id, firestoreName, apiName) ==
  [id |-> id, firestoreName |-> firestoreName, apiName |-> apiName]

useResume == "--resume" \in args
useReset == "--reset" \in args

loadProgress ==
  IF progressFile.exists
    THEN [checkedIds |-> progressFile.checkedIds, results |-> progressFile.results]
    ELSE EmptyProgress

saveProgress(checkedIds, results) ==
  [exists |-> TRUE, checkedIds |-> checkedIds, results |-> results]

\* The loop that fills uniqueTeams from index k on, seen holding the names
\* of the teams kept so far; a team without a name is always kept.
RECURSIVE uniqueTeams(_, _, _)
uniqueTeams(ts, k, seen) ==
  IF k > Len(ts) THEN <<>>
  ELSE LET team == ts[k] IN
       IF team.name # "" /\ team.name \in seen
         THEN uniqueTeams(ts, k + 1, seen)
         ELSE <<team>> \o uniqueTeams(ts, k + 1,
                             IF team.name # "" THEN seen \cup {team.name} ELSE seen)

SeqRange(seq) == {seq[k] : k \in 1..Len(seq)}

remaining_unfiltered(unique, checkedIds) == unique

remaining(unique, checkedIds) ==
  SelectSeq(unique, LAMBDA t : t.id \notin SeqRange(checkedIds))

\* results.<list>.push(entry)
Push(results, list, entry) == [results EXCEPT ![list] = Append(@, entry)]

\* checkTeamNames from its start to the loop over remaining.
CheckTeamNamesStart ==
  /\ run \in {1, 2} /\ check.pc = "start"
  /\ LET unique == uniqueTeams(teams, 1, {})
         progress == IF useReset THEN EmptyProgress
                     ELSE IF useResume THEN loadProgress
                     ELSE EmptyProgress
         rem == remaining(unique, progress.checkedIds)
     IN /\ progressFile' = IF useReset THEN NoProgressFile ELSE progressFile
        /\ check' = [pc |-> IF Len(rem) = 0 THEN "cleanup" ELSE "loop",
                     remaining |-> rem, i |-> 1, attempt |-> 0,
                     results |-> progress.results,
                     checkedIds |-> progress.checkedIds]
  /\ UNCHANGED <<teams, run, args, teamRequests, killedAt, report>>

\* checkSingleTeam(team, results, fetch) up to its first request.
CheckSingleTeamCall ==
  /\ check.pc = "loop"
  /\ LET team == check.remaining[check.i] IN
     IF team.name = ""
       THEN /\ check' = [check EXCEPT
                           !.results = Push(@, "notFound",
                                            Entry(team.id, "(no name field)", "null")),
                           !.pc = "returned"]
            /\ UNCHANGED teamRequests
       ELSE /\ check' = [check EXCEPT !.attempt = 0, !.pc = "fetch"]
            /\ teamRequests' = [teamRequests EXCEPT ![run][team.id] = @ + 1]
  /\ UNCHANGED <<teams, run, args, progressFile, killedAt, report>>

\* What the API can answer to one request: HTTP 429, another non-OK status,
\* no team, no soccer team, the same name, another name, or nothing (fetch
\* or response.json() throws).
ApiOutcomes == {"429", "notOk", "empty", "noSoccer", "match", "mismatch", "throws"}

\* One pass of the body of checkSingleTeam's loop after its fetch settled.
ResponseArrives(outcome) ==
  /\ check.pc = "fetch"
  /\ LET team == check.remaining[check.i]
         name == team.name
     IN check' =
          CASE outcome = "429" -> [check EXCEPT !.pc = "backoff"]
            [] outcome = "notOk" ->
                 [check EXCEPT !.results = Push(@, "notFound", Entry(team.id, name, "HTTP 500")),
                               !.pc = "returned"]
            [] outcome = "empty" ->
                 [check EXCEPT !.results = Push(@, "notFound", Entry(team.id, name, "null")),
                               !.pc = "returned"]
            [] outcome = "noSoccer" ->
                 [check EXCEPT !.results = Push(@, "notFound",
                                  Entry(team.id, name, "(no soccer team in results)")),
                               !.pc = "returned"]
            [] outcome = "match" ->
                 [check EXCEPT !.results = Push(@, "matches", [id |-> team.id, name |-> name]),
                               !.pc = "returned"]
            [] outcome = "mismatch" ->
                 [check EXCEPT !.results = Push(@, "mismatches", Entry(team.id, name, "Z")),
                               !.pc = "returned"]
            [] outcome = "throws" ->
                 IF check.attempt = MAX_RETRIES
                   THEN [check EXCEPT !.results = Push(@, "notFound", Entry(team.id, name, "Error")),
                                      !.attempt = @ + 1,
                                      !.pc = "returned"]
                   ELSE [check EXCEPT !.pc = "backoff"]
  /\ UNCHANGED <<teams, run, args, progressFile, teamRequests, killedAt, report>>

\* The sleep after a 429 or an exception ends: attempt++, and either the
\* next request or the end of the loop and of checkSingleTeam.
RetryAfterDelay ==
  /\ check.pc = "backoff"
  /\ IF check.attempt + 1 <= MAX_RETRIES
       THEN /\ check' = [check EXCEPT !.attempt = @ + 1, !.pc = "fetch"]
            /\ teamRequests' =
                 [teamRequests EXCEPT ![run][check.remaining[check.i].id] = @ + 1]
       ELSE /\ check' = [check EXCEPT !.attempt = @ + 1, !.pc = "returned"]
            /\ UNCHANGED teamRequests
  /\ UNCHANGED <<teams, run, args, progressFile, killedAt, report>>

\* After await checkSingleTeam: checkedIds.push(team.id); saveProgress(...).
TeamChecked ==
  /\ check.pc = "returned"
  /\ LET ids == Append(check.checkedIds, check.remaining[check.i].id) IN
     /\ progressFile' = saveProgress(ids, check.results)
     /\ check' = [check EXCEPT !.checkedIds = ids,
                               !.pc = IF check.i < Len(check.remaining)
                                        THEN "sleep" ELSE "cleanup"]
  /\ UNCHANGED <<teams, run, args, teamRequests, killedAt, report>>

\* sleep(REQUEST_DELAY_MS) ends; i++.
DelayEnds ==
  /\ check.pc = "sleep"
  /\ check' = [check EXCEPT !.i = @ + 1, !.pc = "loop"]
  /\ UNCHANGED <<teams, run, args, progressFile, teamRequests, killedAt, report>>

\* After the loop: the progress file is removed and the report printed.
CleanUp ==
  /\ check.pc = "cleanup"
  /\ progressFile' = NoProgressFile
  /\ report' = check.results
  /\ check' = [check EXCEPT !.pc = "done"]
  /\ UNCHANGED <<teams, run, args, teamRequests, killedAt>>

\* The first run is killed; what it held in memory is lost.
Interrupt ==
  /\ run = 1 /\ check.pc \notin {"start", "done", "killed"}
  /\ killedAt' = [team |-> IF check.pc \in {"fetch", "backoff", "returned"}
                             THEN check.remaining[check.i].id ELSE "",
                  progress |-> progressFile]
  /\ check' = [NotStarted EXCEPT !.pc = "killed"]
  /\ UNCHANGED <<teams, run, args, progressFile, teamRequests, report>>

\* node checkTeamNames.js --resume, on the same team list.
Resume ==
  /\ run = 1 /\ check.pc = "killed"
  /\ run' = 2
  /\ args' = {"--resume"}
  /\ check' = NotStarted
  /\ UNCHANGED <<teams, progressFile, teamRequests, killedAt, report>>

\* Team lists: plain, with a second document of the same name (t3), and
\* with documents without a name field (t4, t5).
TeamLists ==
  {<<Team("t1", "A")>>,
   <<Team("t1", "A"), Team("t2", "B")>>,
   <<Team("t1", "A"), Team("t3", "A"), Team("t2", "B")>>,
   <<Team("t4", ""), Team("t1", "A")>>,
   <<Team("t1", "A"), Team("t4", ""), Team("t5", "")>>}

\* What a run over the list that was killed after its first team left.
StaleProgressFile ==
  saveProgress(<<"t1">>,
               [EmptyResults EXCEPT !.matches = <<[id |-> "t1", name |-> "A"]>>])

InitScript ==
  /\ PointsIdle
  /\ StatsIdle
  /\ EngineIdle
  /\ ModalIdle
  /\ AdminIdle
  /\ FetchIdle
  /\ now = RATE_LIMIT_MS
  /\ lastRequestTime = 0
  /\ requests = <<>>
  /\ procs = [f \in ApiFunctions |-> Proc("idle", 0, 0)]
  /\ teams \in TeamLists
  /\ run = 1
  /\ args \in {{}, {"--resume"}, {"--reset"}}
  /\ progressFile \in
       {NoProgressFile} \cup (IF teams[1].id = "t1" THEN {StaleProgressFile} ELSE {})
  /\ check = NotStarted
  /\ teamRequests = [r \in {1, 2} |-> [t \in TeamIds |-> 0]]
  /\ killedAt = NotKilled
  /\ report = EmptyResults

ScriptFrame ==
  UNCHANGED <<pointsVars, statsVars, engineVars, modalVars, adminVars,
              now, lastRequestTime, requests, procs, fetchVars>>

NextScript ==
  \/ CheckTeamNamesStart /\ ScriptFrame
  \/ CheckSingleTeamCall /\ ScriptFrame
  \/ (\E outcome \in ApiOutcomes : ResponseArrives(outcome)) /\ ScriptFrame
  \/ RetryAfterDelay /\ ScriptFrame
  \/ TeamChecked /\ ScriptFrame
  \/ DelayEnds /\ ScriptFrame
  \/ CleanUp /\ ScriptFrame
  \/ Interrupt /\ ScriptFrame
  \/ Resume /\ ScriptFrame

SpecScript == InitScript /\ [][NextScript]_vars

----------------------------------------------------------------------------
(* Vocabulary of the claims about calculatePoints *)

\* The value a game carries for a field written in either casing.
Carried(lower, upper) == IF lower # Undefined THEN lower ELSE upper

ActualHome == Carried(game.homeScore, game.HomeScore)
ActualAway == Carried(game.awayScore, game.AwayScore)
GameStatus == Carried(game.status, game.Status)
GameFinished == GameStatus.s \in {"finished", "Finished", "FINISHED"}
Absent(v) == v \in {Null, Undefined}

Sign(x) == IF x > 0 THEN 1 ELSE IF x < 0 THEN 0 - 1 ELSE 0
Abs(x) == IF x < 0 THEN 0 - x ELSE x
Bit(b) == IF b THEN 1 ELSE 0

\* A finished game with both actual scores, scored against a prediction with
\* both predicted scores.
FullyScored ==
  /\ pointsCalls = 1
  /\ GameFinished
  /\ IsNum(ActualHome) /\ IsNum(ActualAway)
  /\ IsNum(prediction.predictedHomeScore) /\ IsNum(prediction.predictedAwayScore)

\* C1: for a finished game with actual scores (H,A) and a prediction with
\* entered scores (h,a), calculatePoints returns
\* 5*[sign(h-a) = sign(H-A)] + 2*[h = H] + 2*[a = A] + 1*[|h-a| = |H-A|].
C1_PointsAreTheSumOfTheFourRules ==
  FullyScored =>
    LET h == prediction.predictedHomeScore.n
        a == prediction.predictedAwayScore.n
        H == ActualHome.n
        A == ActualAway.n
    IN points = Num(5 * Bit(Sign(h - a) = Sign(H - A)) + 2 * Bit(h = H)
                    + 2 * Bit(a = A) + Bit(Abs(h - a) = Abs(H - A)))

\* C1 witness: a 2-0 prediction of a 2-1 game: same sign, different
\* magnitude, the 5 points of the outcome and the 2 of the home score.
C1_Witness ==
  /\ FullyScored
  /\ prediction.predictedHomeScore.n - prediction.predictedAwayScore.n = 2
  /\ ActualHome.n - ActualAway.n = 1
  /\ prediction.predictedHomeScore = ActualHome
  /\ points = Num(7)

\* C2: for a finished game with actual scores and a prediction with entered
\* scores, the points are an integer in 0..10, and 10 exactly when both
\* predicted scores equal the actual scores.
C2_PointsInRangeAndTenIffExact ==
  FullyScored =>
    /\ IsNum(points)
    /\ points.n \in 0..10
    /\ points.n = 10 <=> /\ prediction.predictedHomeScore = ActualHome
                         /\ prediction.predictedAwayScore = ActualAway

\* C2 witness: an exact prediction scored 10.
C2_Witness ==
  /\ FullyScored
  /\ prediction.predictedHomeScore = ActualHome
  /\ prediction.predictedAwayScore = ActualAway
  /\ ActualHome # ActualAway
  /\ points = Num(10)

\* C3: calculatePoints returns the sentinel null whenever the game's status
\* is not 'finished' or either actual score is absent (null or missing).
C3_SentinelWheneverNotScoreable ==
  (pointsCalls = 1 /\ (~GameFinished \/ Absent(ActualHome) \/ Absent(ActualAway)))
    => points = Null

\* C4: on a finished game with both actual scores, a prediction with an
\* absent predicted score (null or missing) gets exactly 0 points, and
\* calculatePlayerStats counts it as one game participated with 0 points.
C4_AbsentPredictionScoresZero ==
  (/\ pointsCalls = 1
   /\ GameFinished
   /\ IsNum(ActualHome) /\ IsNum(ActualAway)
   /\ (Absent(prediction.predictedHomeScore) \/ Absent(prediction.predictedAwayScore)))
    => /\ points = Num(0)
       /\ LET s == calculatePlayerStats(<<game>>, <<prediction>>).stats[UserKey(prediction)]
          IN s.gamesParticipated = 1 /\ s.totalPoints = 0

----------------------------------------------------------------------------
(* Vocabulary of the claims about calculatePlayerStats *)

GameIds == {games[i].id : i \in DOMAIN games}
GameOf(id) == games[CHOOSE i \in DOMAIN games : games[i].id = id]

\* The user a prediction belongs to: its userId, or "unknown" without one.
OwnerOf(i) ==
  IF Absent(predictions[i].userId) THEN "unknown" ELSE predictions[i].userId.s

\* The points calculatePoints gives prediction i against its game.
PointsOf(i) == calculatePoints(predictions[i], GameOf(predictions[i].gameId))

\* The predictions of user u that count: game found, points not the sentinel.
ScoredOf(u) ==
  {i \in DOMAIN predictions :
     /\ OwnerOf(i) = u
     /\ predictions[i].gameId \in GameIds
     /\ PointsOf(i) # Null}

RECURSIVE SumPoints(_)
SumPoints(S) ==
  IF S = {} THEN 0
  ELSE LET i == CHOOSE x \in S : TRUE IN PointsOf(i).n + SumPoints(S \ {i})

StatsReturned == statsCalls >= 1

\* C5: for every user, totalPoints is the sum, gamesParticipated the count
\* and perfectScoresCount the count of 10s over exactly that user's
\* predictions whose game exists and whose points are not the sentinel.
C5_TotalsAreOverScoredPredictions ==
  StatsReturned =>
    \A u \in DOMAIN playerStats.stats :
      /\ playerStats.stats[u].totalPoints = SumPoints(ScoredOf(u))
      /\ playerStats.stats[u].gamesParticipated = Cardinality(ScoredOf(u))
      /\ playerStats.stats[u].perfectScoresCount =
           Cardinality({i \in ScoredOf(u) : PointsOf(i) = Num(10)})

\* C5 witness: a user with a scored 0-point prediction and a prediction on
\* the unfinished game, which adds nothing.
C5_Witness ==
  /\ StatsReturned
  /\ \E i, j \in DOMAIN predictions :
       /\ OwnerOf(i) = "u1" /\ OwnerOf(j) = "u1"
       /\ predictions[i].gameId = "g1" /\ predictions[j].gameId = "g2"
       /\ PointsOf(i) = Null /\ PointsOf(j) = Num(6)
  /\ playerStats.stats["u1"].totalPoints = 6
  /\ playerStats.stats["u1"].gamesParticipated = 1

\* The week label of a game, if it has one.
WeekOf(g) == Carried(g.fecha, g.Fecha)
WeekLabels == {WeekOf(games[i]).s : i \in {j \in DOMAIN games : ~Absent(WeekOf(games[j]))}}

\* The scored predictions of user u on games of week w, and their sum.
ScoredInWeek(u, w) ==
  {i \in ScoredOf(u) : WeekOf(GameOf(predictions[i].gameId)) = Str(w)}
WeekTotal(u, w) == SumPoints(ScoredInWeek(u, w))
Owners == {OwnerOf(i) : i \in DOMAIN predictions}

\* C6: fechasWonCount(u) is the number of week labels w in which u has a
\* scored prediction and u's summed points equal the maximum over the users
\* with a scored prediction in w; ties are all credited, and a week without a
\* scored prediction credits nobody.
C6_FechasWonCountsWeeksAtTheMaximum ==
  StatsReturned =>
    \A u \in DOMAIN playerStats.stats :
      playerStats.stats[u].fechasWonCount =
        Cardinality({w \in WeekLabels :
                       /\ ScoredInWeek(u, w) # {}
                       /\ \A v \in Owners :
                            ScoredInWeek(v, w) # {} => WeekTotal(v, w) <= WeekTotal(u, w)})

\* C6 witness: two users tied at the maximum of week W1, both credited.
C6_Witness ==
  /\ StatsReturned
  /\ ScoredInWeek("u1", "W1") # {} /\ ScoredInWeek("u2", "W1") # {}
  /\ WeekTotal("u1", "W1") = WeekTotal("u2", "W1")
  /\ playerStats.stats["u1"].fechasWonCount = 1
  /\ playerStats.stats["u2"].fechasWonCount = 1

\* C7: the mapping has one entry per distinct userId in the predictions and
\* no other, predictions without a userId being counted under "unknown"; a
\* user without a scoreable prediction has all four statistics 0.
C7_OneEntryPerUser ==
  StatsReturned =>
    /\ DOMAIN playerStats.stats = Owners
    /\ Len(playerStats.keys) = Cardinality(Owners)
    /\ {playerStats.keys[k] : k \in DOMAIN playerStats.keys} = Owners
    /\ \A u \in Owners : ScoredOf(u) = {} => playerStats.stats[u] = ZeroStats

\* C7 witness: a prediction without userId next to a known user, neither
\* with a scoreable prediction.
C7_Witness ==
  /\ StatsReturned
  /\ \E i \in DOMAIN predictions : predictions[i].userId = Undefined
  /\ DOMAIN playerStats.stats = {"unknown", "u1"}
  /\ playerStats.stats["unknown"] = ZeroStats
  /\ playerStats.stats["u1"] = ZeroStats

\* The array without its element i.
Without(seq, i) == [k \in 1..(Len(seq) - 1) |-> IF k < i THEN seq[k] ELSE seq[k + 1]]

\* C8: a prediction whose gameId matches no game changes no statistic: the
\* result equals that of the call without it, except that its user still has
\* an (all-zero) entry.
C8_DanglingPredictionChangesNothing ==
  StatsReturned =>
    \A i \in DOMAIN predictions :
      predictions[i].gameId \notin GameIds =>
        LET without == calculatePlayerStats(games, Without(predictions, i)).stats
        IN /\ DOMAIN playerStats.stats = DOMAIN without \cup {OwnerOf(i)}
           /\ \A u \in DOMAIN playerStats.stats :
                playerStats.stats[u] = IF u \in DOMAIN without THEN without[u] ELSE ZeroStats

\* C8 witness: a dangling prediction of u2 next to a scored one of u1.
C8_Witness ==
  /\ StatsReturned
  /\ \E i, j \in DOMAIN predictions :
       /\ predictions[i].gameId = "gX" /\ OwnerOf(i) = "u2"
       /\ predictions[j].gameId = "g1" /\ OwnerOf(j) = "u1" /\ PointsOf(j) = Num(10)
  /\ playerStats.stats["u2"] = ZeroStats
  /\ playerStats.stats["u1"].totalPoints = 10

\* The arrays that hold the same predictions as `seq` in another order.
Shuffles(seq) ==
  {[k \in DOMAIN seq |-> seq[f[k]]] :
     f \in {g \in [DOMAIN seq -> DOMAIN seq] : \A a, b \in DOMAIN seq : a # b => g[a] # g[b]}}

\* C9: for every permutation of the predictions array, calculatePlayerStats
\* returns the same userId-to-stats mapping and sortPlayersByStats the same
\* ranking.
C9_ResultsIndependentOfPredictionOrder ==
  sortCalls = 1 =>
    \A shuffled \in Shuffles(predictions) :
      /\ calculatePlayerStats(games, shuffled).stats = playerStats.stats
      /\ sortPlayersByStats(calculatePlayerStats(games, shuffled), shuffled) = ranking

----------------------------------------------------------------------------
(* Vocabulary of the claims about sortPlayersByStats *)

SortReturned == sortCalls >= 1

\* The display name sortPlayersByStats compares for a user.
SortName(u) == getLatestPlayerName(predictions, u)

SameThreeKeys(p, q) ==
  /\ p[2].totalPoints = q[2].totalPoints
  /\ p[2].fechasWonCount = q[2].fechasWonCount
  /\ p[2].perfectScoresCount = q[2].perfectScoresCount

\* Entry p may stand before entry q in the leaderboard.
InChainOrder(p, q) ==
  \/ p[2].totalPoints > q[2].totalPoints
  \/ /\ p[2].totalPoints = q[2].totalPoints
     /\ p[2].fechasWonCount > q[2].fechasWonCount
  \/ /\ p[2].totalPoints = q[2].totalPoints
     /\ p[2].fechasWonCount = q[2].fechasWonCount
     /\ p[2].perfectScoresCount > q[2].perfectScoresCount
  \/ /\ SameThreeKeys(p, q)
     /\ CollationRank(SortName(p[1])) <= CollationRank(SortName(q[1]))

KeyIndex(u) == CHOOSE k \in DOMAIN playerStats.keys : playerStats.keys[k] = u

\* r holds every entry of the mapping exactly once.
IsPermutationOfEntries(r) ==
  /\ Len(r) = Len(playerStats.keys)
  /\ {r[i] : i \in DOMAIN r} = {<<u, playerStats.stats[u]>> : u \in DOMAIN playerStats.stats}

\* Users equal on all four keys stand in r in the mapping's iteration order.
KeepsInputOrderOfEquals(r) ==
  \A i, j \in DOMAIN r :
    (/\ i < j
     /\ SameThreeKeys(r[i], r[j])
     /\ SortName(r[i][1]) = SortName(r[j][1]))
      => KeyIndex(r[i][1]) < KeyIndex(r[j][1])

\* C12: every sortPlayersByStats call returns a permutation of the entries
\* of the mapping in which users equal on all four keys keep the mapping's
\* iteration order, and a repeated call returns the same array.
C12_SortIsAStableDeterministicPermutation ==
  [][(sortCalls' = sortCalls + 1)
       => /\ IsPermutationOfEntries(ranking')
          /\ KeepsInputOrderOfEquals(ranking')
          /\ (sortCalls >= 1 => ranking' = ranking)]_vars

\* C12 witness: two calls made on a mapping with two users equal on all
\* four keys.
C12_Witness ==
  /\ sortCalls = 2
  /\ Len(ranking) = 2
  /\ SameThreeKeys(ranking[1], ranking[2])
  /\ SortName(ranking[1][1]) = SortName(ranking[2][1])
  /\ ranking[1][2].totalPoints = 10

\* The latest display names among the predictions counted for user u.
LatestNames(u) ==
  {predictions[i].playerName.s :
     i \in {k \in DOMAIN predictions :
              /\ OwnerOf(k) = u
              /\ \A m \in DOMAIN predictions :
                   OwnerOf(m) = u => predictions[m].timestamp.n <= predictions[k].timestamp.n}}

\* C13: for every user of the stats mapping, the "unknown" user included,
\* the name sortPlayersByStats uses as fourth key is what getLatestPlayerName
\* returns: the playerName of the prediction with the greatest timestamp
\* among that user's predictions.
C13_SortNameIsTheLatestPlayerName ==
  SortReturned =>
    \A u \in DOMAIN playerStats.stats : SortName(u) \in LatestNames(u)

----------------------------------------------------------------------------
(* Vocabulary of the claim about the two field casings *)

\* The letter cases in which a status value may be written.
LetterCases(st) ==
  IF st.s \in {"finished", "Finished", "FINISHED"}
    THEN {Str("finished"), Str("Finished"), Str("FINISHED")}
    ELSE {st}

\* The records that carry the content of game g: capitalised or lowercase
\* fields, any letter case of the status.
Writings(g) ==
  LET st == Carried(g.status, g.Status)
      h == Carried(g.homeScore, g.HomeScore)
      a == Carried(g.awayScore, g.AwayScore)
      f == Carried(g.fecha, g.Fecha)
  IN {GameDoc(g.id, s, h, a, f) : s \in LetterCases(st)}
     \cup {LowercaseGame(g.id, s, h, a, f) : s \in LetterCases(st)}

\* C14: calculatePoints and calculatePlayerStats give the same points and
\* stats whether the game is written with the capitalised or the lowercase
\* fields, and whatever the letter case of the status value.
C14_CasingDoesNotChangePointsOrStats ==
  pointsCalls = 1 =>
    \A w \in Writings(game) :
      /\ calculatePoints(prediction, w) = points
      /\ calculatePlayerStats(<<w>>, <<prediction>>)
           = calculatePlayerStats(<<game>>, <<prediction>>)

\* C14 witness: a game written with capitalised fields and Status
\* 'FINISHED', an exact prediction scored 10.
C14_Witness ==
  /\ pointsCalls = 1
  /\ game.status = Undefined /\ game.Status = Str("FINISHED")
  /\ points = Num(10)
  /\ calculatePlayerStats(<<game>>, <<prediction>>).stats["u1"].fechasWonCount = 1

----------------------------------------------------------------------------
(* Several records of one user on one game *)

\* The scored records that share the user and the game of record j.
SamePair(j) ==
  {i \in ScoredOf(OwnerOf(j)) : predictions[i].gameId = predictions[j].gameId}

----------------------------------------------------------------------------
(* The arguments of the engine's functions *)

Elements(seq) == {seq[k] : k \in DOMAIN seq}

----------------------------------------------------------------------------
(* The player history modal *)

\* Call c wrote the modal content in this step.
WritesContent(c) ==
  /\ calls[c].pc \in Awaits
  /\ calls'[c].pc = "done"

\* C17: the result of an openPlayerHistory call that resolves after the
\* modal was closed, or after a later call was made, is discarded: such a
\* call never writes the modal content.
C17_StaleResultIsDiscarded ==
  [][\A c \in DOMAIN calls :
       WritesContent(c) => (c = Len(calls) /\ modalDisplay = "block")]_vars

\* C19: the Fechas Won figure the modal shows for a user is that user's
\* fechasWonCount from calculatePlayerStats over all games and all
\* predictions.
C19_HistoryShowsLeaderboardFechasWon ==
  modalContent.kind = "history" =>
    modalContent.fechasWonCount =
      getPlayerStats(calculatePlayerStats(games, predictions), modalContent.user).fechasWonCount

----------------------------------------------------------------------------
(* The game records the admin panel writes *)

\* C18: every game record in the store after a write of handleAdminGameAdd
\* or handleUpdateResults has HomeScore and AwayScore both present or both
\* null, and non-null scores only with Status 'finished' or 'live'.
C18_WrittenScoresArePairedAndOnlyWhenPlayed ==
  \A k \in DOMAIN store :
    /\ (store[k].HomeScore = Null) <=> (store[k].AwayScore = Null)
    /\ store[k].HomeScore # Null => store[k].Status \in {"finished", "live"}

\* handleUpdateResults writes document k in this step: its updateDoc
\* resolves and the document changes.
UpdateWrites(k) ==
  /\ upd.pc = "updateDoc" /\ upd' # upd
  /\ store[k].id = Head(upd.pendingGames).id
  /\ store'[k] # store[k]

\* The game in hand as the query returned it was upcoming, had an event id
\* and no kick-off in the future, and the API reports the event finished.
WriteIsDue ==
  /\ Head(upd.pendingGames).Status = "upcoming"
  /\ Head(upd.pendingGames).thesportsdbEventId # ""
  /\ Head(upd.pendingGames).KickOffTime # "future"
  /\ upd.result.found /\ upd.result.isFinished

\* The write sets Status 'finished' and the scores of the API.
WritesApiResult(k) ==
  /\ store'[k].Status = "finished"
  /\ store'[k].HomeScore = upd.result.homeScore
  /\ store'[k].AwayScore = upd.result.awayScore
  /\ \A j \in DOMAIN store : j # k => store'[j] = store[j]

\* C24: handleUpdateResults writes a game only if the query returned it
\* with Status 'upcoming', it has a thesportsdbEventId, its kick-off is not
\* in the future and lookupEventById reports isFinished; the write sets
\* Status 'finished' and the API's scores; and a game that is 'finished' in
\* the store is never written, also when another update of the game came
\* between the query and the write.
C24_FinishedGamesAreNeverWritten ==
  [][\A k \in DOMAIN store :
       UpdateWrites(k) =>
         /\ WriteIsDue
         /\ WritesApiResult(k)
         /\ store[k].Status # "finished"]_vars

\* The part of C24 that holds with other writers around: what is written and
\* on which query and API result.
C24_WritesAreDueAndCarryTheApiResult ==
  [][\A k \in DOMAIN store :
       UpdateWrites(k) => WriteIsDue /\ WritesApiResult(k)]_vars

\* Without another writer between the query and the write, the game
\* written is 'upcoming' in the store.
C24_AloneWritesOnlyUpcomingGames ==
  [][\A k \in DOMAIN store :
       (UpdateWrites(k) /\ store[k] = [Head(upd.pendingGames) EXCEPT !.id = store[k].id])
         => store[k].Status = "upcoming"]_vars

\* C25: a handler that disabled its button has enabled it again when its
\* promise settles, whichever way it ends: validation return, empty query
\* result, success, or an error thrown by the store or the API. No handler
\* running means its button is enabled.
C25_ButtonsEnabledWhenSettled ==
  /\ add.pc = "idle" => ~addGameButtonDisabled
  /\ upd.pc = "idle" => ~updateResultsButtonDisabled

\* C25 witness: handleAdminGameAdd has ended in an error of the store and
\* handleUpdateResults after a successful update, both buttons enabled.
C25_Witness ==
  /\ add.pc = "idle" /\ add.message = "Error adding game"
  /\ upd.pc = "idle" /\ upd.updated /\ upd.dispatched
  /\ ~addGameButtonDisabled /\ ~updateResultsButtonDisabled

\* The form handleAdminGameAdd turns down: a required field empty, no
\* Fecha, the same team twice, or a kick-off time that is no date.
InvalidForm(f) ==
  \/ \E x \in RequiredFields : f[x] = ""
  \/ f.fecha = ""
  \/ f.homeTeam = f.awayTeam
  \/ f.kickOffTime = "bad"

\* handleAdminGameAdd is called in this step.
AddClicked == add.pc = "idle" /\ add' # add

\* The write of handleAdminGameAdd succeeds in this step.
AddSucceeds ==
  /\ add.pc = "addDoc"
  /\ Len(store') = Len(store) + 1
  /\ store'[Len(store')] = [add.gameData EXCEPT !.id = store'[Len(store')].id]

\* C26: handleAdminGameAdd called on a form with an empty required field,
\* an empty Fecha, equal teams or an invalid kick-off time writes no game,
\* leaves the form as it is and dispatches no 'adminGameAdded'; the event
\* is dispatched and the form cleared, its fixture event id included, only
\* in the step in which the write succeeded.
C26_RejectedFormChangesNothing ==
  [][/\ (AddClicked /\ InvalidForm(form)) =>
          /\ store' = store /\ form' = form
          /\ add'.pc = "idle" /\ ~add'.dispatched
     /\ AddClicked => (store' = store /\ form' = form /\ ~add'.dispatched)
     /\ (form' # form \/ (add'.dispatched /\ add' # add)) =>
          /\ AddSucceeds
          /\ add'.dispatched
          /\ form' = clearAdminForm(form)
          /\ form'.thesportsdbEventId = ""
     /\ (add.pc = "addDoc" /\ add' # add /\ ~AddSucceeds) =>
          (store' = store /\ form' = form /\ ~add'.dispatched)]_vars

\* C26 witness: a game was written with a fixture event id, the event
\* dispatched and the form cleared.
C26_Witness ==
  /\ add.pc = "idle" /\ add.dispatched
  /\ Len(store) = 3 /\ store[3].thesportsdbEventId = "e3"
  /\ form = clearAdminForm(form) /\ form.kickOffTime = "past"

----------------------------------------------------------------------------
(* The rate limit *)

\* C20: any two HTTP requests issued by searchTeam, searchFixture and
\* lookupEventById start at least RATE_LIMIT_MS apart.
C20_RequestsAreRateLimitApart ==
  \A i, j \in DOMAIN requests :
    i < j => requests[j] - requests[i] >= RATE_LIMIT_MS

----------------------------------------------------------------------------
(* The array searchFixture returns *)

\* searchFixture was called with both team names and both requests were
\* answered.
FixturesReturned ==
  /\ fetchFn = "searchFixture" /\ fetchCalls = 1
  /\ fetchArgs[1] # "" /\ fetchArgs[2] # ""
  /\ \A k \in DOMAIN responses : responses[k].kind # "throws"

\* The events of both answers, first order first.
BothOrders == responses[1].items \o responses[2].items

FixtureIds == {returned.fixtures[k].thesportsdbEventId : k \in DOMAIN returned.fixtures}

\* What holds of every returned array: at most 5 fixtures, distinct event
\* ids, kick-off after `time`, Status 'upcoming', non-decreasing kick-off.
WellFormedFixtures(time) ==
  LET fixtures == returned.fixtures
  IN /\ returned.kind = "array"
     /\ Len(fixtures) <= 5
     /\ \A i, j \in DOMAIN fixtures :
          i # j => fixtures[i].thesportsdbEventId # fixtures[j].thesportsdbEventId
     /\ \A i \in DOMAIN fixtures :
          /\ DateOf(fixtures[i].KickOffTime) > time
          /\ fixtures[i].Status = "upcoming"
     /\ \A i, j \in DOMAIN fixtures :
          i < j => DateOf(fixtures[i].KickOffTime) <= DateOf(fixtures[j].KickOffTime)

\* The returned fixtures are the 5 earliest of the events at the positions
\* `qualifying` of BothOrders.
FiveEarliestOf(qualifying) ==
  LET ids == {BothOrders[i].idEvent : i \in qualifying}
  IN /\ FixtureIds \subseteq ids
     /\ Len(returned.fixtures) = (IF Cardinality(ids) < 5 THEN Cardinality(ids) ELSE 5)
     /\ \A i \in qualifying :
          BothOrders[i].idEvent \notin FixtureIds =>
            \A k \in DOMAIN returned.fixtures :
              DateOf(returned.fixtures[k].KickOffTime) <= BothOrders[i].time

\* The events with a readable kick-off after the time of the call.
AfterTheCall ==
  {i \in DOMAIN BothOrders : BothOrders[i].time # -1 /\ BothOrders[i].time > calledAt}

\* The first occurrence of each event id, when its kick-off is readable and
\* after the time at which both answers are in.
FirstAndAfterTheAnswers ==
  {i \in DOMAIN BothOrders :
     /\ \A j \in 1..(i - 1) : BothOrders[j].idEvent # BothOrders[i].idEvent
     /\ BothOrders[i].time # -1 /\ BothOrders[i].time > filteredAt}

\* C21 as stated: the returned array is well formed and holds the 5
\* earliest of the events that kick off after the time of the call.
C21_FiveEarliestAfterTheCall ==
  FixturesReturned => WellFormedFixtures(calledAt) /\ FiveEarliestOf(AfterTheCall)

\* C21 amended: the returned array has at most 5 fixtures with distinct
\* event ids, Status 'upcoming' and non-decreasing kick-off, each kicking
\* off after the time at which both answers are in (hence after the call),
\* and it holds the 5 earliest of the events that kick off after that time,
\* an event id counting as it occurs first in the two answers.
C21_FiveEarliestAfterTheAnswers ==
  FixturesReturned =>
    /\ WellFormedFixtures(filteredAt)
    /\ WellFormedFixtures(calledAt)
    /\ FiveEarliestOf(FirstAndAfterTheAnswers)

\* C21 witness: more than 5 events qualify, one is in both answers, one
\* kicks off while the requests are under way, and 5 fixtures come back.
C21_Witness ==
  /\ FixturesReturned
  /\ filteredAt = 2 /\ calledAt = 1
  /\ Cardinality(FirstAndAfterTheAnswers) > 5
  /\ \E i, j \in DOMAIN BothOrders : i # j /\ BothOrders[i].idEvent = BothOrders[j].idEvent
  /\ \E i \in DOMAIN BothOrders : BothOrders[i].time = 2
  /\ Len(returned.fixtures) = 5
  /\ responses[1].items # <<>> /\ responses[1].items[1].idEvent = "e8"

----------------------------------------------------------------------------
(* Failures of the API *)

\* The answer to request k gives nothing: not OK, no items, or an exception.
GivesNothing(k) ==
  \/ responses[k].kind \in {"throws", "notOk"}
  \/ responses[k].items = <<>>

\* What the function returns when it has nothing to give.
EmptyReturn == IF fetchFn = "searchFixture" THEN ReturnArray(<<>>) ELSE ReturnNull

EmptyArgument ==
  \/ fetchArgs[1] = ""
  \/ fetchFn = "searchTeam" /\ fetchArgs[1] = " "
  \/ fetchFn = "searchFixture" /\ fetchArgs[2] = ""

----------------------------------------------------------------------------
(* Vocabulary of the claims about checkTeamNames.js *)

\* The number of entries the three lists of results hold for a team id.
EntriesOf(results, id) ==
  Cardinality({k \in 1..Len(results.matches) : results.matches[k].id = id})
  + Cardinality({k \in 1..Len(results.mismatches) : results.mismatches[k].id = id})
  + Cardinality({k \in 1..Len(results.notFound) : results.notFound[k].id = id})

EntriesIn(results) ==
  Len(results.matches) + Len(results.mismatches) + Len(results.notFound)

\* checkSingleTeam has returned for remaining[i] and nothing else happened.
CheckSingleTeamReturned == check.pc = "returned"

\* Every request of the team in hand was answered with HTTP 429.
RetriesExhausted ==
  /\ CheckSingleTeamReturned
  /\ teamRequests[run][check.remaining[check.i].id] = MAX_RETRIES + 1
  /\ EntriesOf(check.results, check.remaining[check.i].id) = 0

\* C27: after checkSingleTeam returns for a team, the team has exactly one
\* entry in results.matches, results.mismatches and results.notFound taken
\* together, whatever the API answered, HTTP 429 on every attempt included;
\* when checkTeamNames finishes the three lists hold exactly one entry per
\* checked team id; and no run sends more than MAX_RETRIES + 1 requests for
\* a team.
C27_OneEntryPerCheckedTeam ==
  /\ CheckSingleTeamReturned =>
       EntriesOf(check.results, check.remaining[check.i].id) = 1
  /\ check.pc = "done" =>
       /\ \A id \in SeqRange(check.checkedIds) : EntriesOf(report, id) = 1
       /\ EntriesIn(report) = Cardinality(SeqRange(check.checkedIds))
  /\ \A r \in {1, 2} : \A id \in TeamIds : teamRequests[r][id] <= MAX_RETRIES + 1

\* The parts of C27 the script keeps: never two entries for a team, never
\* more than MAX_RETRIES + 1 requests, and an entry for every team whose
\* last request was not answered with HTTP 429.
C27_AtMostOneEntryPerCheckedTeam ==
  /\ CheckSingleTeamReturned =>
       /\ EntriesOf(check.results, check.remaining[check.i].id) <= 1
       /\ EntriesOf(check.results, check.remaining[check.i].id) = 0 => RetriesExhausted
  /\ \A r \in {1, 2} : \A id \in TeamIds : teamRequests[r][id] <= MAX_RETRIES + 1

\* The run started with --resume after the interruption has finished.
ResumedRunFinished == run = 2 /\ check.pc = "done"

UniqueTeamSet == SeqRange(uniqueTeams(teams, 1, {}))

\* The runs that sent a request for the team.
RunsRequesting(id) == {r \in {1, 2} : teamRequests[r][id] > 0}

\* The team ids the progress file held when the first run was killed.
SavedIds == SeqRange(killedAt.progress.checkedIds)

\* The report starts with the results the progress file held.
SavedResultsCarried ==
  \A list \in {"matches", "mismatches", "notFound"} :
    LET saved == killedAt.progress.results[list] IN
    /\ Len(saved) <= Len(report[list])
    /\ SubSeq(report[list], 1, Len(saved)) = saved

\* C23 as stated: when a run is interrupted and restarted with --resume on
\* the same team list, every unique team is requested from the API in
\* exactly one of the two runs, teams recorded in the saved progress are not
\* requested again, the saved results are carried into the final report, and
\* the progress file is gone once the last remaining team is processed.
C23_EachTeamRequestedInOneRun ==
  ResumedRunFinished =>
    /\ \A t \in UniqueTeamSet :
         /\ Cardinality(RunsRequesting(t.id)) = 1
         /\ t.id \in SavedIds => teamRequests[2][t.id] = 0
    /\ SavedResultsCarried
    /\ ~progressFile.exists

\* C23, amended: the resumed run requests no team recorded in the saved
\* progress and every other unique team that has a name; a team is requested
\* in both runs only if the first run was killed while it had that team in
\* hand (request sent, progress not yet saved); a team without a name is
\* requested in neither run; the saved results are carried into the final
\* report and the progress file is gone once the last team is processed.
C23_SavedTeamsNotRequestedAgain ==
  ResumedRunFinished =>
    /\ \A t \in UniqueTeamSet :
         /\ t.id \in SavedIds => teamRequests[2][t.id] = 0
         /\ (t.id \notin SavedIds /\ t.name # "") => teamRequests[2][t.id] > 0
         /\ RunsRequesting(t.id) = {1, 2} => t.id = killedAt.team
         /\ t.name = "" => RunsRequesting(t.id) = {}
    /\ \A id \in SeqRange(check.checkedIds) : \E t \in UniqueTeamSet : t.id = id
    /\ SavedResultsCarried
    /\ ~progressFile.exists

\* A resumed run finished that skipped a team the first run had requested
\* and saved, and requested a team the first run had not reached.
C23_Witness ==
  /\ ResumedRunFinished
  /\ EntriesIn(killedAt.progress.results) > 0
  /\ \E t, u \in UniqueTeamSet :
       /\ t.id \in SavedIds /\ RunsRequesting(t.id) = {1}
       /\ RunsRequesting(u.id) = {2}

====
